---- MODULE Spec2Model ----
(***************************************************************************)
(* A model of the assembly comparison engine of ce-mcp                     *)
(* (src/ce_mcp/assembly_diff.py), of truncate_output (src/ce_mcp/utils.py),*)
(* of the session handling of CompilerExplorerClient                       *)
(* (src/ce_mcp/api_client.py) and of compare_compilers                     *)
(* (src/ce_mcp/tools.py).                                                  *)
(*                                                                         *)
(* A Python str is modelled as a sequence of one-character strings, so     *)
(* that stripping, splitting, cutting and lower-casing are computed the    *)
(* way the interpreter computes them.  The functions of the engine are     *)
(* pure; each one is an operator, and each specification draws the         *)
(* function's input from a bounded set and applies the function in an      *)
(* action.                                                                 *)
(***************************************************************************)
EXTENDS Integers, Sequences, FiniteSets, TLC

VARIABLES
    pc,            \* which step of the run under study has been taken
    asm_text,      \* normalize_assembly: the raw listing (argument asm_text)
    normalized,    \* normalize_assembly: the returned list of lines
    renormalized,  \* normalize_assembly applied to "\n".join(normalized)
    line,          \* extract_instruction / extract_function_call: argument line
    instruction,   \* the value extract_instruction returned
    call,          \* the value extract_function_call returned
    function_name, \* extract_function_assembly: argument function_name
    function_asm,  \* the value extract_function_assembly returned
    asm1,          \* generate_assembly_diff: argument asm1
    asm2,          \* generate_assembly_diff: argument asm2
    context,       \* generate_assembly_diff: argument context
    diff,          \* the locals and the returned dict of generate_assembly_diff
    swapped,       \* the same for generate_assembly_diff(asm2, asm1)
    second_label1, \* generate_assembly_diff: argument label1 of a second call
    second_label2, \* generate_assembly_diff: argument label2 of a second call
    second_context, \* generate_assembly_diff: argument context of a second call
    labelled,      \* what the second call on asm1 and asm2 returned
    output,        \* truncate_output: argument text
    max_lines,     \* truncate_output: argument max_lines
    max_line_length, \* truncate_output: argument max_line_length
    truncated,     \* the pair (result, was_truncated) truncate_output returned
    session,       \* CompilerExplorerClient.session: 0 for None, else the session
    connector,     \* CompilerExplorerClient.connector: 0 for None, else the connector
    closed,        \* CompilerExplorerClient._closed
    sessions,      \* every aiohttp.ClientSession made so far: "open" or "closed"
    tasks,         \* the calls on the client: operation, position, local `session`
    compare        \* compare_compilers: arguments, position, results, calls made

\* the variables of extract_function_assembly and of generate_assembly_diff
extractVars == <<function_name, function_asm>>

diffVars == <<asm1, asm2, context, diff, swapped>>

\* the variables of a second generate_assembly_diff call, of truncate_output,
\* of a CompilerExplorerClient and of compare_compilers
labelVars == <<second_label1, second_label2, second_context, labelled>>

truncateVars == <<output, max_lines, max_line_length, truncated>>

clientVars == <<session, connector, closed, sessions, tasks>>

serviceVars == <<labelVars, truncateVars, clientVars, compare>>

vars ==
    <<pc, asm_text, normalized, renormalized, line, instruction, call,
      function_name, function_asm, asm1, asm2, context, diff, swapped,
      second_label1, second_label2, second_context, labelled,
      output, max_lines, max_line_length, truncated,
      session, connector, closed, sessions, tasks, compare>>

(***************************************************************************)
(* Bounds of the model.                                                    *)
(***************************************************************************)
\* longest raw listing enumerated character by character
MaxTextLen == 5
\* longest tail (operand text) enumerated character by character after a head
MaxTailLen == 3
\* longest run of one repeated letter used as the head of a line
MaxRunLen == 11
\* most lines of a listing given to extract_function_assembly
MaxListingLines == 4

(***************************************************************************)
(* Characters.                                                             *)
(***************************************************************************)
LowerLetters ==
    <<"a", "b", "c", "d", "e", "f", "g", "h", "i", "j", "k", "l", "m",
      "n", "o", "p", "q", "r", "s", "t", "u", "v", "w", "x", "y", "z">>

UpperLetters ==
    <<"A", "B", "C", "D", "E", "F", "G", "H", "I", "J", "K", "L", "M",
      "N", "O", "P", "Q", "R", "S", "T", "U", "V", "W", "X", "Y", "Z">>

Digits == {"0", "1", "2", "3", "4", "5", "6", "7", "8", "9"}

Range(s) == {s[i] : i \in DOMAIN s}

\* str.isspace for the characters the model uses
Whitespace == {" ", "\t", "\n", "\r"}

IsSpace(c) == c \in Whitespace

\* the line boundaries of str.splitlines among the characters the model uses
LineBreaks == {"\n", "\r"}

\* the value None, distinct from every str (a str holds one-character strings)
None == <<"None">>

\* the locals and the result of a generate_assembly_diff call not made yet
NoDiff ==
    [lines1 |-> <<>>, lines2 |-> <<>>, diff_lines |-> <<>>, opcodes |-> <<>>,
     unified_diff |-> <<>>, side_by_side |-> <<>>, statistics |-> <<>>,
     summary |-> <<>>]

\* no call of extract_function_assembly or of generate_assembly_diff is under study
IdleExtract == function_name = <<>> /\ function_asm = None

IdleDiff ==
    asm1 = <<>> /\ asm2 = <<>> /\ context = 0 /\ diff = NoDiff /\ swapped = NoDiff

\* no second generate_assembly_diff call is under study
IdleLabels ==
    second_label1 = <<>> /\ second_label2 = <<>> /\ second_context = 0 /\ labelled = NoDiff

\* no call of truncate_output is under study
IdleTruncate ==
    output = <<>> /\ max_lines = 0 /\ max_line_length = 0 /\ truncated = <<<<>>, FALSE>>

\* a client nothing is called on: the state __init__ leaves
\* (session = None, connector = None, _closed = False)
NewClient ==
    session = 0 /\ connector = 0 /\ closed = FALSE /\ sessions = <<>> /\ tasks = <<>>

\* compare_compilers is not under study
IdleCompare == compare = <<>>

IdleService == IdleLabels /\ IdleTruncate /\ NewClient /\ IdleCompare

(***************************************************************************)
(* str methods.                                                            *)
(***************************************************************************)
\* all sequences over S of length at most n
BoundedSeq(S, n) == UNION {[1..k -> S] : k \in 0..n}

\* s[i:] with a 1-based first index
From(s, i) == SubSeq(s, i, Len(s))

\* str.lower on one character
LowerChar(c) ==
    IF \E i \in DOMAIN UpperLetters : UpperLetters[i] = c
    THEN LowerLetters[CHOOSE i \in DOMAIN UpperLetters : UpperLetters[i] = c]
    ELSE c

\* str.lower
Lower(s) == [i \in DOMAIN s |-> LowerChar(s[i])]

\* str.startswith / str.endswith
StartsWith(s, p) == Len(s) >= Len(p) /\ SubSeq(s, 1, Len(p)) = p

EndsWith(s, p) == Len(s) >= Len(p) /\ SubSeq(s, Len(s) - Len(p) + 1, Len(s)) = p

\* p in s (substring test)
Contains(s, p) == \E i \in 1..(Len(s) - Len(p) + 1) : SubSeq(s, i, i + Len(p) - 1) = p

\* 1-based position of the first c in s, 0 when there is none (str.index)
IndexOf(s, c) ==
    IF c \in Range(s)
    THEN CHOOSE i \in DOMAIN s : s[i] = c /\ \A j \in 1..(i - 1) : s[j] # c
    ELSE 0

\* 1-based position of the last c in s, 0 when there is none (str.rindex)
LastIndexOf(s, c) ==
    IF c \in Range(s)
    THEN CHOOSE i \in DOMAIN s : s[i] = c /\ \A j \in (i + 1)..Len(s) : s[j] # c
    ELSE 0

RECURSIVE LStrip(_)
\* str.lstrip()
LStrip(s) ==
    IF s = <<>> THEN <<>>
    ELSE IF IsSpace(Head(s)) THEN LStrip(Tail(s)) ELSE s

RECURSIVE RStrip(_)
\* str.rstrip()
RStrip(s) ==
    IF s = <<>> THEN <<>>
    ELSE IF IsSpace(s[Len(s)]) THEN RStrip(SubSeq(s, 1, Len(s) - 1)) ELSE s

\* str.strip()
Strip(s) == LStrip(RStrip(s))

\* length of the leading run of non-whitespace characters of s
TokenLen(s) ==
    IF \E i \in DOMAIN s : IsSpace(s[i])
    THEN (CHOOSE i \in DOMAIN s : IsSpace(s[i]) /\ \A j \in 1..(i - 1) : ~IsSpace(s[j])) - 1
    ELSE Len(s)

RECURSIVE Split(_)
\* str.split(): the whitespace-delimited tokens
Split(s) ==
    LET t == LStrip(s) IN
    IF t = <<>> THEN <<>>
    ELSE <<SubSeq(t, 1, TokenLen(t))>> \o Split(From(t, TokenLen(t) + 1))

\* str.split(None, 1): the first token, and the rest after the whitespace run
SplitFirst(s) ==
    LET t == LStrip(s)
        rest == LStrip(From(t, TokenLen(t) + 1))
    IN  IF t = <<>> THEN <<>>
        ELSE IF rest = <<>> THEN <<SubSeq(t, 1, TokenLen(t))>>
        ELSE <<SubSeq(t, 1, TokenLen(t)), rest>>

RECURSIVE Join(_, _)
\* sep.join(parts)
Join(sep, parts) ==
    IF parts = <<>> THEN <<>>
    ELSE IF Len(parts) = 1 THEN parts[1]
    ELSE parts[1] \o sep \o Join(sep, Tail(parts))

\* position of the first line boundary of s, 0 when there is none
FirstBreak(s) ==
    IF \E i \in DOMAIN s : s[i] \in LineBreaks
    THEN CHOOSE i \in DOMAIN s : s[i] \in LineBreaks /\ \A j \in 1..(i - 1) : s[j] \notin LineBreaks
    ELSE 0

RECURSIVE SplitLines(_)
\* str.splitlines(): "\r\n" is one boundary, a final boundary opens no line
SplitLines(s) ==
    IF s = <<>> THEN <<>>
    ELSE LET k == FirstBreak(s) IN
         IF k = 0 THEN <<s>>
         ELSE LET after == IF s[k] = "\r" /\ k < Len(s) /\ s[k + 1] = "\n"
                           THEN k + 2 ELSE k + 1
              IN  <<SubSeq(s, 1, k - 1)>> \o SplitLines(From(s, after))

(***************************************************************************)
(* normalize_assembly                                                      *)
(***************************************************************************)
\* line.strip().startswith("#")
IsCommentOnly(l) == StartsWith(Strip(l), <<"#">>)

\* a plausible slip: cut at the last '#' instead of the first
RemoveInlineComment_AtLast(l) ==
    IF "#" \in Range(l) THEN RStrip(SubSeq(l, 1, LastIndexOf(l, "#") - 1)) ELSE l

\* if "#" in line: line = line[: line.index("#")].rstrip()
RemoveInlineComment(l) ==
    IF "#" \in Range(l) THEN RStrip(SubSeq(l, 1, IndexOf(l, "#") - 1)) ELSE l

\* a plausible slip: strip the ends only
CollapseWhitespace_StripOnly(l) == Strip(l)

\* " ".join(line.split())
CollapseWhitespace(l) == Join(<<" ">>, Split(l))

RECURSIVE NormalizeLoop(_, _, _)
\* the for loop of normalize_assembly from line i on, acc the list built so far
NormalizeLoop(lines, i, acc) ==
    IF i > Len(lines) THEN acc
    ELSE IF IsCommentOnly(lines[i]) THEN NormalizeLoop(lines, i + 1, acc)
    ELSE LET l == RemoveInlineComment(lines[i]) IN
         IF Strip(l) = <<>> THEN NormalizeLoop(lines, i + 1, acc)
         ELSE NormalizeLoop(lines, i + 1, Append(acc, CollapseWhitespace(l)))

RECURSIVE NormalizeLoop_Prepend(_, _, _)
\* a plausible slip: the list is built in reverse
NormalizeLoop_Prepend(lines, i, acc) ==
    IF i > Len(lines) THEN acc
    ELSE IF IsCommentOnly(lines[i]) THEN NormalizeLoop_Prepend(lines, i + 1, acc)
    ELSE LET l == RemoveInlineComment(lines[i]) IN
         IF Strip(l) = <<>> THEN NormalizeLoop_Prepend(lines, i + 1, acc)
         ELSE NormalizeLoop_Prepend(lines, i + 1, <<CollapseWhitespace(l)>> \o acc)

normalize_assembly_Reversed(text) == NormalizeLoop_Prepend(SplitLines(text), 1, <<>>)

normalize_assembly(text) == NormalizeLoop(SplitLines(text), 1, <<>>)

(***************************************************************************)
(* Specification SpecNormalize: normalize_assembly on a raw listing, then  *)
(* on its own output joined with newlines.                                 *)
(***************************************************************************)
\* characters of the listings that are enumerated exhaustively
NormAlphabet == {"a", "4", " ", "\t", "#", "\n"}

\* the ARM store of tests/test_assembly_diff_arch.py: str r2, [sp, #4]
ArmStoreLine ==
    <<"s", "t", "r", " ", "r", "2", ",", " ", "[", "s", "p", ",", " ", "#",
      "4", "]">>

\* the listing of tests/test_assembly_diff.py, test_normalize_assembly
TestListing ==
    <<"\n", " ", " ", " ", " ", "#", " ", "T", "h", "i", "s", " ", "i", "s",
      " ", "a", " ", "c", "o", "m", "m", "e", "n", "t", "\n", " ", " ", " ",
      " ", "m", "o", "v", " ", "e", "a", "x", ",", " ", "0", " ", " ", "#",
      " ", "i", "n", "l", "i", "n", "e", " ", "c", "o", "m", "m", "e", "n",
      "t", "\n", " ", " ", " ", " ", "\n", " ", " ", " ", " ", "a", "d", "d",
      " ", "e", "b", "x", ",", " ", "1", "\n", " ", " ", " ", " ", " ", " ",
      " ", " ", "j", "m", "p", " ", " ", " ", " ", ".", "L", "2", " ", " ",
      " ", "#", " ", "l", "o", "t", "s", " ", "o", "f", " ", "s", "p", "a",
      "c", "e", "s", "\n">>

\* a listing with carriage returns: a\r\nb # c\r
CrLfListing == <<"a", "\r", "\n", "b", " ", "#", " ", "c", "\r">>

RawListings ==
    BoundedSeq(NormAlphabet, MaxTextLen) \cup {ArmStoreLine, TestListing, CrLfListing}

InitNormalize ==
    /\ pc = "input"
    /\ asm_text \in RawListings
    /\ normalized = <<>>
    /\ renormalized = <<>>
    /\ line = <<>>
    /\ instruction = None
    /\ call = None
    /\ IdleExtract
    /\ IdleDiff
    /\ IdleService

\* lines1 = normalize_assembly(asm1)
NormalizeAssembly ==
    /\ pc = "input"
    /\ normalized' = normalize_assembly(asm_text)
    /\ pc' = "normalized"
    /\ UNCHANGED <<asm_text, renormalized, line, instruction, call, extractVars, diffVars, serviceVars>>

\* normalize_assembly("\n".join(lines1))
Renormalize ==
    /\ pc = "normalized"
    /\ renormalized' = normalize_assembly(Join(<<"\n">>, normalized))
    /\ pc' = "renormalized"
    /\ UNCHANGED <<asm_text, normalized, line, instruction, call, extractVars, diffVars, serviceVars>>

NextNormalize == NormalizeAssembly \/ Renormalize

SpecNormalize == InitNormalize /\ [][NextNormalize]_vars

(***************************************************************************)
(* Vocabulary of the claims about normalize_assembly, stated on the        *)
(* characters of a line and not through the operators above.               *)
(***************************************************************************)
\* the characters of s that are not whitespace, in order
NonSpace(s) == SelectSeq(s, LAMBDA c : ~IsSpace(c))

\* the places, counted in non-whitespace characters, where s has whitespace
\* between two words
WordBreaks(s) ==
    {Len(NonSpace(SubSeq(s, 1, i))) : i \in {j \in DOMAIN s : IsSpace(s[j])}}
        \ {0, Len(NonSpace(s))}

\* l is non-empty, has no whitespace at either end and no two in a row
IsTidy(l) ==
    /\ l # <<>>
    /\ ~IsSpace(l[1])
    /\ ~IsSpace(l[Len(l)])
    /\ \A i \in 1..(Len(l) - 1) : ~(IsSpace(l[i]) /\ IsSpace(l[i + 1]))

\* out is raw with every whitespace run replaced by one space and none at the ends
IsCollapseOf(out, raw) ==
    /\ NonSpace(out) = NonSpace(raw)
    /\ WordBreaks(out) = WordBreaks(raw)
    /\ \A i \in DOMAIN out : IsSpace(out[i]) => out[i] = " "
    /\ out = <<>> \/ IsTidy(out)

\* the text of l before its first '#' (all of l when it has none)
BeforeHash(l) ==
    IF \E i \in DOMAIN l : l[i] = "#"
    THEN SubSeq(l, 1, (CHOOSE i \in DOMAIN l : l[i] = "#" /\ \A j \in 1..(i - 1) : l[j] # "#") - 1)
    ELSE l

IsBlank(l) == \A i \in DOMAIN l : IsSpace(l[i])

\* the first non-whitespace character of l is c
FirstNonSpaceIs(l, c) ==
    \E i \in DOMAIN l : l[i] = c /\ \A j \in 1..(i - 1) : IsSpace(l[j])

\* the last non-whitespace character of l is c
LastNonSpaceIs(l, c) ==
    \E i \in DOMAIN l : l[i] = c /\ \A j \in (i + 1)..Len(l) : IsSpace(l[j])

\* the claim's rule for dropping a line
IsDropped(l) == FirstNonSpaceIs(l, "#") \/ IsBlank(BeforeHash(l))

\* the input lines that are kept, and the place of kept line i in the output
KeptLines(lines) == {i \in DOMAIN lines : ~IsDropped(lines[i])}

RankOf(lines, i) == Cardinality({j \in KeptLines(lines) : j <= i})

\* C1: every line normalize_assembly returns is non-empty, holds no '#', has
\* no leading or trailing whitespace and no two consecutive whitespace
\* characters.
C1_NormalizedLinesTidy ==
    pc # "input" =>
        \A i \in DOMAIN normalized :
            IsTidy(normalized[i]) /\ "#" \notin Range(normalized[i])

\* C1 witness: a listing with a comment and a tab was normalized to a line
\* that holds two words.
C1_Witness ==
    /\ pc = "normalized"
    /\ "#" \in Range(asm_text)
    /\ "\t" \in Range(asm_text)
    /\ \E i \in DOMAIN normalized : " " \in Range(normalized[i])

\* C2: normalize_assembly is an order-preserving filter-and-map: a line is
\* dropped iff its stripped form starts with '#' or it is blank before its
\* first '#'; each other line gives one output line, its text before the
\* first '#' with whitespace collapsed, in the order of the input.
C2_FilterMapInOrder ==
    pc # "input" =>
        LET lines == SplitLines(asm_text) IN
        /\ Len(normalized) = Cardinality(KeptLines(lines))
        /\ \A i \in KeptLines(lines) :
               IsCollapseOf(normalized[RankOf(lines, i)], BeforeHash(lines[i]))

\* C2 witness: of three or more input lines one was dropped and two, with
\* different texts, were kept.
C2_Witness ==
    /\ pc = "normalized"
    /\ Len(SplitLines(asm_text)) > Len(normalized)
    /\ Len(normalized) >= 2
    /\ normalized[1] # normalized[2]

\* C3: normalization is idempotent: normalizing the newline-join of
\* normalize_assembly(x) gives normalize_assembly(x) again.
C3_Idempotent == pc = "renormalized" => renormalized = normalized

\* C3 witness: a listing that normalization changed, with two lines kept, was
\* normalized a second time.
C3_Witness ==
    /\ pc = "renormalized"
    /\ Len(normalized) >= 2
    /\ Join(<<"\n">>, normalized) # asm_text

\* every '#' of l opens an immediate operand: it follows the mnemonic and is
\* followed by a digit
HasOnlyImmediateHashes(l) ==
    /\ "#" \in Range(l)
    /\ \A i \in DOMAIN l :
           l[i] = "#" => /\ i < Len(l)
                         /\ l[i + 1] \in Digits
                         /\ i > 1
                         /\ ~IsBlank(SubSeq(l, 1, i - 1))

\* C4: normalize_assembly removes only comments and whitespace noise: the
\* mnemonic and every operand token of a retained instruction line, ARM
\* immediates written with '#' included, are still in the normalized line,
\* in order.
C4_OperandsPreserved ==
    pc # "input" =>
        LET lines == SplitLines(asm_text) IN
        \A i \in KeptLines(lines) :
            HasOnlyImmediateHashes(lines[i]) =>
                /\ RankOf(lines, i) \in DOMAIN normalized
                /\ IsCollapseOf(normalized[RankOf(lines, i)], lines[i])

(***************************************************************************)
(* extract_instruction                                                     *)
(***************************************************************************)
\* the length check of extract_instruction: len(potential_instruction) <= 10
MaxMnemonicLen == 10

\* a plausible slip: only a line made of one token is taken for a label
IsLabel_SingleToken(stripped) ==
    EndsWith(stripped, <<":">>) /\ Len(Split(stripped)) = 1

\* stripped.endswith(":")
IsLabel(stripped) == EndsWith(stripped, <<":">>)

\* stripped.startswith(".")
IsDirective(stripped) == StartsWith(stripped, <<".">>)

\* stripped.startswith("#")
IsPreprocessor(stripped) == StartsWith(stripped, <<"#">>)

\* a plausible slip: the pattern ^[a-z0-9._]+$, which lets a digit come first
MatchesMnemonicPattern_AnyFirst(token) ==
    /\ token # <<>>
    /\ \A i \in DOMAIN token :
           token[i] \in Range(LowerLetters) \cup Digits \cup {".", "_"}

\* re.match(r"^[a-z][a-z0-9._]*$", token); '$' also matches before a final "\n"
MatchesMnemonicPattern(token) ==
    LET t == IF token # <<>> /\ token[Len(token)] = "\n"
             THEN SubSeq(token, 1, Len(token) - 1) ELSE token
    IN  /\ t # <<>>
        /\ t[1] \in Range(LowerLetters)
        /\ \A i \in DOMAIN t : t[i] \in Range(LowerLetters) \cup Digits \cup {".", "_"}

\* a plausible slip: the first token is not lower-cased
PotentialInstruction_RawCase(parts) == parts[1]

\* potential_instruction = parts[0].lower()
PotentialInstruction(parts) == Lower(parts[1])

extract_instruction(l) ==
    LET stripped == Strip(l) IN
    IF stripped = <<>> THEN None
    ELSE IF IsLabel(stripped) THEN None
    ELSE IF IsDirective(stripped) THEN None
    ELSE IF IsPreprocessor(stripped) THEN None
    ELSE LET parts == Split(stripped) IN
         IF parts = <<>> THEN None
         ELSE LET potential_instruction == PotentialInstruction(parts) IN
              IF /\ MatchesMnemonicPattern(potential_instruction)
                 /\ Len(potential_instruction) <= MaxMnemonicLen
              THEN potential_instruction
              ELSE None

(***************************************************************************)
(* extract_function_call                                                   *)
(***************************************************************************)
\* a plausible slip: bx, which the comment above the list names, is in it
call_instructions_WithBx ==
    {<<"c", "a", "l", "l">>, <<"b", "l">>, <<"b", "l", "x">>, <<"b", "x">>,
     <<"j", "a", "l">>, <<"j", "a", "l", "r">>}

call_instructions ==
    {<<"c", "a", "l", "l">>, <<"b", "l">>, <<"b", "l", "x">>,
     <<"j", "a", "l">>, <<"j", "a", "l", "r">>}

\* a plausible slip: "ptr" is looked for in the target as written
IsIndirectTarget_CaseSensitive(target) ==
    Contains(target, <<"p", "t", "r">>) /\ "[" \in Range(target)

\* "ptr" in target.lower() and "[" in target
IsIndirectTarget(target) ==
    Contains(Lower(target), <<"p", "t", "r">>) /\ "[" \in Range(target)

\* f"indirect_{instruction}"
IndirectSentinel(instr) ==
    <<"i", "n", "d", "i", "r", "e", "c", "t", "_">> \o instr

\* if target.startswith("[") and target.endswith("]"): target = target[1:-1]
StripEnclosingBrackets(target) ==
    IF StartsWith(target, <<"[">>) /\ EndsWith(target, <<"]">>)
    THEN SubSeq(target, 2, Len(target) - 1)
    ELSE target

\* a plausible slip: the target is taken from the lower-cased line
CallTarget_Lowercased(l, instr) ==
    LET original_parts == SplitFirst(Lower(Strip(l))) IN
    IF Len(original_parts) > 1
    THEN LET target == original_parts[2] IN
         IF IsIndirectTarget(target) THEN IndirectSentinel(instr)
         ELSE StripEnclosingBrackets(target)
    ELSE None

\* the body of "if instruction in call_instructions:"
CallTarget(l, instr) ==
    LET original_parts == SplitFirst(Strip(l)) IN
    IF Len(original_parts) > 1
    THEN LET target == original_parts[2] IN
         IF IsIndirectTarget(target) THEN IndirectSentinel(instr)
         ELSE StripEnclosingBrackets(target)
    ELSE None

extract_function_call(l) ==
    LET stripped == Lower(Strip(l))
        parts == Split(stripped)
    IN  IF Len(parts) < 2 THEN None
        ELSE IF parts[1] \in call_instructions THEN CallTarget(l, parts[1])
        ELSE None

(***************************************************************************)
(* Specification SpecClassify: the two extractors applied to one line, in  *)
(* the order analyze_diff applies them.                                    *)
(***************************************************************************)
\* n times the character c
Run(c, n) == [i \in 1..n |-> c]

\* characters enumerated after a run of letters: they decide whether the
\* first token is a mnemonic
MnemonicAlphabet == {"A", "1", ".", "_", ":", "#", " "}

\* lines whose first token has every shape and every length around the limit
MnemonicLines ==
    {lead \o Run("a", n) \o tail :
        lead \in {<<>>, <<" ">>},
        n \in 0..MaxRunLen,
        tail \in BoundedSeq(MnemonicAlphabet, MaxTailLen)}

\* first tokens of call lines, in several letter cases, and of other lines
InstructionHeads ==
    {<<"c", "a", "l", "l">>, <<"C", "A", "L", "L">>, <<"B", "l">>,
     <<"b", "l", "x">>, <<"j", "a", "l">>, <<"J", "a", "l", "r">>,
     <<"j", "m", "p">>}

\* characters enumerated around the operand of a call
OperandAlphabet == {" ", "[", "]"}

OperandCores == {<<>>, <<"f">>, <<"f", ":">>, <<"P", "t", "r">>}

\* longest text enumerated on each side of the core of an operand
MaxAffixLen == 2

CallLines ==
    {head \o pre \o core \o post :
        head \in InstructionHeads,
        pre \in BoundedSeq(OperandAlphabet, MaxAffixLen),
        core \in OperandCores,
        post \in BoundedSeq(OperandAlphabet, MaxAffixLen)}

\* the lines of tests/test_assembly_diff.py and test_assembly_diff_arch.py
TestLines ==
    {
     <<"c", "a", "l", "l", " ", "Q", "W", "O", "R", "D", " ", "P", "T", "R",
       " ", "[", "r", "a", "x", "]">>,
     <<"c", "a", "l", "l", " ", "s", "t", "d", ":", ":", "v", "e", "c", "t",
       "o", "r", "<", "i", "n", "t", ">", ":", ":", "s", "i", "z", "e", "(",
       ")">>,
     <<"j", "a", "l", "r", " ", "r", "a", ",", " ", "0", "(", "t", "0", ")">>,
     <<"b", "l", "x", " ", "r", "3">>,
     <<"v", "e", "r", "y", "l", "o", "n", "g", "i", "n", "s", "t", "r", "u",
       "c", "t", "i", "o", "n", "n", "a", "m", "e", " ", "x", ",", " ", "y",
       ",", " ", "z">>,
     <<".", "s", "e", "c", "t", "i", "o", "n", " ", ".", "t", "e", "x", "t">>,
     <<".", "L", "2", ":">>,
     <<"#", " ", "C", "o", "m", "m", "e", "n", "t">>,
     <<"j", "m", "p", " ", ".", "L", "2">>,
     <<"m", "o", "v", " ", "e", "a", "x", ",", " ", "0">>,
     <<"b", "x", " ", "l", "r">>,
     <<"c", "a", "l", "l">>,
     <<"a", "d", "d", ".", "w", " ", "r", "3", ",", " ", "r", "3", ",", " ",
       "#", "1">>
    }

\* call lines whose operand holds brackets: call [a][b], call [rax],
\* call [a[b]], call f[a]
BracketLines ==
    {<<"c", "a", "l", "l", " ", "[", "a", "]", "[", "b", "]">>,
     <<"c", "a", "l", "l", " ", "[", "r", "a", "x", "]">>,
     <<"c", "a", "l", "l", " ", "[", "a", "[", "b", "]", "]">>,
     <<"c", "a", "l", "l", " ", "f", "[", "a", "]">>}

Lines == MnemonicLines \cup CallLines \cup TestLines \cup BracketLines

InitClassify ==
    /\ pc = "line"
    /\ line \in Lines
    /\ instruction = None
    /\ call = None
    /\ asm_text = <<>>
    /\ normalized = <<>>
    /\ renormalized = <<>>
    /\ IdleExtract
    /\ IdleDiff
    /\ IdleService

\* instruction = extract_instruction(line[1:])
ExtractInstruction ==
    /\ pc = "line"
    /\ instruction' = extract_instruction(line)
    /\ pc' = "instruction"
    /\ UNCHANGED <<line, call, asm_text, normalized, renormalized, extractVars, diffVars, serviceVars>>

\* call = extract_function_call(line[1:])
ExtractFunctionCall ==
    /\ pc = "instruction"
    /\ call' = extract_function_call(line)
    /\ pc' = "classified"
    /\ UNCHANGED <<line, instruction, asm_text, normalized, renormalized, extractVars, diffVars, serviceVars>>

NextClassify == ExtractInstruction \/ ExtractFunctionCall

SpecClassify == InitClassify /\ [][NextClassify]_vars

(***************************************************************************)
(* Vocabulary of the claims about the classifier, stated on the characters *)
(* of the line.                                                            *)
(***************************************************************************)
\* the number of whitespace-delimited tokens of l
TokenCount(l) ==
    Cardinality({i \in DOMAIN l : ~IsSpace(l[i]) /\ (i = 1 \/ IsSpace(l[i - 1]))})

\* the places of the first and of the last character that is not whitespace
FirstNonSpaceAt(l) == CHOOSE i \in DOMAIN l : ~IsSpace(l[i]) /\ \A j \in 1..(i - 1) : IsSpace(l[j])

LastNonSpaceAt(l) == CHOOSE i \in DOMAIN l : ~IsSpace(l[i]) /\ \A j \in (i + 1)..Len(l) : IsSpace(l[j])

\* the place where the first token of l ends
FirstTokenEnd(l) ==
    CHOOSE k \in FirstNonSpaceAt(l)..Len(l) :
        /\ \A j \in FirstNonSpaceAt(l)..k : ~IsSpace(l[j])
        /\ k = Len(l) \/ IsSpace(l[k + 1])

\* the first whitespace-delimited token of a line that is not blank
FirstToken(l) == SubSeq(l, FirstNonSpaceAt(l), FirstTokenEnd(l))

\* the text of a line of two or more tokens from its second token to its last
\* character that is not whitespace
OperandText(l) ==
    SubSeq(l,
           CHOOSE i \in (FirstTokenEnd(l) + 1)..Len(l) :
               ~IsSpace(l[i]) /\ \A j \in (FirstTokenEnd(l) + 1)..(i - 1) : IsSpace(l[j]),
           LastNonSpaceAt(l))

MnemonicChars == Range(LowerLetters) \cup Digits \cup {".", "_"}

\* the call and branch-and-link instructions the claims name
CallMnemonics ==
    {<<"c", "a", "l", "l">>, <<"b", "l">>, <<"b", "l", "x">>,
     <<"j", "a", "l">>, <<"j", "a", "l", "r">>}

\* l has an operand and its first token is a call instruction in some letter case
IsCallLine(l) == TokenCount(l) >= 2 /\ Lower(FirstToken(l)) \in CallMnemonics

\* op holds 'ptr' in some letter case and a '['
IsIndirectOperand(op) ==
    /\ \E i \in 1..(Len(op) - 2) :
           LowerChar(op[i]) = "p" /\ LowerChar(op[i + 1]) = "t" /\ LowerChar(op[i + 2]) = "r"
    /\ \E i \in DOMAIN op : op[i] = "["

IsBracketWrapped(op) == op # <<>> /\ op[1] = "[" /\ op[Len(op)] = "]"

\* C5: extract_instruction returns None for every line that is empty or
\* whitespace-only, that ends with ':', or that starts with '.' or '#',
\* whatever whitespace surrounds it and whatever else it holds.
C5_RejectsNonInstructions ==
    (/\ pc # "line"
     /\ \/ IsBlank(line)
        \/ LastNonSpaceIs(line, ":")
        \/ FirstNonSpaceIs(line, ".")
        \/ FirstNonSpaceIs(line, "#")) => instruction = None

\* C5 witness: a label line of two tokens whose first token has the shape of
\* a mnemonic, with whitespace on both sides, was given to
\* extract_instruction.
C5_Witness ==
    /\ pc = "instruction"
    /\ LastNonSpaceIs(line, ":")
    /\ IsSpace(line[1])
    /\ IsSpace(line[Len(line)])
    /\ TokenCount(line) = 2
    /\ FirstToken(line) = <<"a">>

\* C6: a value extract_instruction returns is the lower-cased first token
\* of the line, has 1 to 10 characters, starts with a letter a-z and holds
\* only a-z, 0-9, '.' and '_'; a first token longer than 10 characters or
\* holding any other character gives None.
C6_MnemonicShape ==
    pc # "line" =>
        /\ instruction # None =>
               /\ ~IsBlank(line)
               /\ instruction = Lower(FirstToken(line))
               /\ Len(instruction) >= 1
               /\ Len(instruction) <= 10
               /\ instruction[1] \in Range(LowerLetters)
               /\ Range(instruction) \subseteq MnemonicChars
        /\ (/\ ~IsBlank(line)
            /\ \/ Len(FirstToken(line)) > 10
               \/ ~(Range(Lower(FirstToken(line))) \subseteq MnemonicChars))
               => instruction = None

\* C6 witness: a first token of exactly 10 characters, written with an upper
\* case letter, was returned in lower case.
C6_Witness ==
    /\ pc = "instruction"
    /\ instruction # None
    /\ Len(instruction) = 10
    /\ instruction # FirstToken(line)

\* C7 as stated: each line has exactly one class: no line is both an
\* instruction and a call, and no label or directive line is an instruction
\* or a call.
C7_ExactlyOneClass ==
    pc = "classified" =>
        /\ ~(instruction # None /\ call # None)
        /\ (LastNonSpaceIs(line, ":") \/ FirstNonSpaceIs(line, "."))
               => (instruction = None /\ call = None)

\* C7 as amended: the classes overlap: no label or directive line is an
\* instruction and no directive line is a call, but every call line that is
\* not a label is an instruction too, its mnemonic being the call
\* instruction in lower case.
C7_OverlappingClasses ==
    pc = "classified" =>
        /\ (LastNonSpaceIs(line, ":") \/ FirstNonSpaceIs(line, "."))
               => instruction = None
        /\ FirstNonSpaceIs(line, ".") => call = None
        /\ (call # None /\ ~LastNonSpaceIs(line, ":")) =>
               /\ instruction = Lower(FirstToken(line))
               /\ instruction \in CallMnemonics

\* C7 witness: a call line written in upper case was classified as a call and
\* as an instruction.
C7_Witness ==
    /\ pc = "classified"
    /\ call # None
    /\ instruction # None
    /\ instruction # FirstToken(line)

C9_TargetAsWritten ==
    (/\ pc = "classified"
     /\ IsCallLine(line)
     /\ ~IsIndirectOperand(OperandText(line))
     /\ ~IsBracketWrapped(OperandText(line))) => call = OperandText(line)

\* C9 witness: an upper-case call with an operand of several tokens, one with
\* an upper-case letter, returned that operand.
C9_Witness ==
    /\ pc = "classified"
    /\ IsCallLine(line)
    /\ FirstToken(line) = <<"C", "A", "L", "L">>
    /\ call = OperandText(line)
    /\ call # Lower(call)
    /\ " " \in Range(call)

\* C10: for a call line whose operand holds 'ptr' in any letter case and a
\* '[', extract_function_call returns indirect_<instruction>, the
\* instruction in lower case, also when the operand is wrapped in brackets.
C10_IndirectSentinel ==
    (/\ pc = "classified"
     /\ IsCallLine(line)
     /\ IsIndirectOperand(OperandText(line))) =>
        call = <<"i", "n", "d", "i", "r", "e", "c", "t", "_">> \o Lower(FirstToken(line))

\* C10 witness: an upper-case call whose operand is 'Ptr' wrapped in brackets
\* returned the sentinel.
C10_Witness ==
    /\ pc = "classified"
    /\ IsCallLine(line)
    /\ FirstToken(line) # Lower(FirstToken(line))
    /\ IsBracketWrapped(OperandText(line))
    /\ IsIndirectOperand(OperandText(line))
    /\ call = <<"i", "n", "d", "i", "r", "e", "c", "t", "_">>
                  \o Lower(FirstToken(line))

\* the number of '[' less the number of ']' among the first i characters of op
BracketDepth(op, i) ==
    Cardinality({j \in 1..i : op[j] = "["}) - Cardinality({j \in 1..i : op[j] = "]"})

\* op is wrapped in one pair of brackets: its first '[' closes at its last
\* character and not before
IsEnclosedByOnePair(op) ==
    /\ Len(op) >= 2
    /\ op[1] = "["
    /\ op[Len(op)] = "]"
    /\ \A i \in 1..(Len(op) - 1) : BracketDepth(op, i) >= 1
    /\ BracketDepth(op, Len(op)) = 0

\* every ']' of op closes a '[' before it and every '[' is closed
IsBalanced(op) ==
    /\ \A i \in DOMAIN op : BracketDepth(op, i) >= 0
    /\ BracketDepth(op, Len(op)) = 0

\* C11: extract_function_call strips brackets from a call target only when
\* the whole target is wrapped in one pair of enclosing brackets, and then
\* removes exactly that pair; any other target keeps all its text, and a
\* target is never left with unbalanced brackets.  Stated for the targets
\* whose brackets are balanced.
C11_StripsOnlyEnclosingPair ==
    (/\ pc = "classified"
     /\ IsCallLine(line)
     /\ ~IsIndirectOperand(OperandText(line))
     /\ IsBalanced(OperandText(line))) =>
        LET op == OperandText(line) IN
        /\ IsEnclosedByOnePair(op) => call = SubSeq(op, 2, Len(op) - 1)
        /\ ~IsEnclosedByOnePair(op) => call = op
        /\ IsBalanced(call)

(***************************************************************************)
(* extract_function_assembly                                               *)
(***************************************************************************)
\* any(marker in line for marker in [":", "(", "<"])
HasMarker(l) == \E marker \in {":", "(", "<"} : marker \in Range(l)

\* the first loop: the first line that holds function_name and a marker
\* (0 stands for start_idx = None; places are 1-based)
FindFunctionStart(lines, name) ==
    IF \E i \in DOMAIN lines : Contains(lines[i], name) /\ HasMarker(lines[i])
    THEN CHOOSE i \in DOMAIN lines :
             /\ Contains(lines[i], name) /\ HasMarker(lines[i])
             /\ \A j \in 1..(i - 1) : ~(Contains(lines[j], name) /\ HasMarker(lines[j]))
    ELSE 0

\* the test of the second loop on one line
IsFunctionEnd(l) ==
    /\ l # <<>>
    /\ ~(StartsWith(l, <<" ">>) \/ StartsWith(l, <<"\t">>))
    /\ ":" \in Range(l)
    /\ ~StartsWith(Strip(l), <<".">>)

\* the second loop: the first line after start that ends the function,
\* len(lines) when there is none (as a 1-based place: Len(lines) + 1)
FindFunctionEnd(lines, start) ==
    IF \E i \in (start + 1)..Len(lines) : IsFunctionEnd(lines[i])
    THEN CHOOSE i \in (start + 1)..Len(lines) :
             IsFunctionEnd(lines[i]) /\ \A j \in (start + 1)..(i - 1) : ~IsFunctionEnd(lines[j])
    ELSE Len(lines) + 1

extract_function_assembly(text, name) ==
    LET lines == SplitLines(text)
        start_idx == FindFunctionStart(lines, name)
    IN  IF start_idx = 0 THEN None
        ELSE Join(<<"\n">>, SubSeq(lines, start_idx, FindFunctionEnd(lines, start_idx) - 1))

(***************************************************************************)
(* Specification SpecExtract: extract_function_assembly on a listing put   *)
(* together from function labels, local labels and body lines.             *)
(***************************************************************************)
\* the lines of the listings: the labels of functions f, ff and g, a local
\* label, a body line, a body line that calls f, an empty line
ListingLines ==
    {<<"f", ":">>, <<"f", "f", ":">>, <<"g", ":">>, <<".", "L", ":">>,
     <<" ", "x">>, <<" ", "c", "a", "l", "l", " ", "f", "(", ")">>, <<>>}

FunctionNames == {<<"f">>, <<"f", "f">>, <<"g">>, <<"h">>}

FunctionListings ==
    {Join(<<"\n">>, ls) : ls \in BoundedSeq(ListingLines, MaxListingLines)}

InitExtract ==
    /\ pc = "listing"
    /\ asm_text \in FunctionListings
    /\ function_name \in FunctionNames
    /\ function_asm = None
    /\ normalized = <<>>
    /\ renormalized = <<>>
    /\ line = <<>>
    /\ instruction = None
    /\ call = None
    /\ IdleDiff
    /\ IdleService

\* main_asm = extract_function_assembly(asm, "main")
ExtractFunctionAssembly ==
    /\ pc = "listing"
    /\ function_asm' = extract_function_assembly(asm_text, function_name)
    /\ pc' = "extracted"
    /\ UNCHANGED <<asm_text, function_name, normalized, renormalized, line,
                   instruction, call, diffVars, serviceVars>>

NextExtract == ExtractFunctionAssembly

SpecExtract == InitExtract /\ [][NextExtract]_vars

\* l is the label line of a function: not indented, not starting with '.',
\* a name followed by ':'
IsFunctionLabel(l) ==
    /\ Len(l) >= 2
    /\ l[Len(l)] = ":"
    /\ \A i \in 1..(Len(l) - 1) : l[i] \notin {":", ".", " ", "\t"}

IsLocalLabel(l) == Len(l) >= 2 /\ l[1] = "." /\ l[Len(l)] = ":"

IsIndentedLine(l) == Len(l) >= 2 /\ l[1] \in {" ", "\t"} /\ ~IsBlank(l)

\* the listings the claim speaks of: function labels, each with a name of
\* its own and followed by an indented line, then indented lines and local
\* labels
IsFunctionListing(lines) ==
    /\ lines # <<>>
    /\ IsFunctionLabel(lines[1])
    /\ \A i \in DOMAIN lines :
           IsFunctionLabel(lines[i]) \/ IsLocalLabel(lines[i]) \/ IsIndentedLine(lines[i])
    /\ \A i \in DOMAIN lines :
           IsFunctionLabel(lines[i]) => (i < Len(lines) /\ IsIndentedLine(lines[i + 1]))
    /\ \A i, j \in DOMAIN lines :
           (IsFunctionLabel(lines[i]) /\ lines[i] = lines[j]) => i = j

\* the place after the last line of the function whose label is at place s
FunctionEndAfter(lines, s) ==
    IF \E i \in (s + 1)..Len(lines) : IsFunctionLabel(lines[i])
    THEN CHOOSE i \in (s + 1)..Len(lines) :
             IsFunctionLabel(lines[i]) /\ \A j \in (s + 1)..(i - 1) : ~IsFunctionLabel(lines[j])
    ELSE Len(lines) + 1

\* C12: for a listing of function labels each followed by indented lines,
\* extract_function_assembly(listing, f) returns the lines from f's own
\* label up to the next function label (or the end), with no line of
\* another function, and None exactly when no line holds f together with
\* ':', '(' or '<'.
C12_SliceOfOwnFunction ==
    LET lines == SplitLines(asm_text) IN
    (pc = "extracted" /\ IsFunctionListing(lines)) =>
        /\ \A s \in DOMAIN lines :
               lines[s] = function_name \o <<":">> =>
                   function_asm =
                       Join(<<"\n">>, SubSeq(lines, s, FunctionEndAfter(lines, s) - 1))
        /\ function_asm = None <=>
               ~\E i \in DOMAIN lines : Contains(lines[i], function_name) /\ HasMarker(lines[i])

(***************************************************************************)
(* difflib.SequenceMatcher(None, a, b) on lists of lines, as the engine    *)
(* uses it: no junk test, and the listings stay under the 200 elements at  *)
(* which popular lines would be set aside.  Places are the interpreter's:  *)
(* counted from 0, ranges half open, so a[i] is written a[i + 1] here.     *)
(***************************************************************************)
RECURSIVE RunEndingAt(_, _, _, _, _, _)
\* find_longest_match: j2len[j] after row i, the length of the longest
\* common run of a[alo:] and b[blo:] that ends with a[i] and b[j]
RunEndingAt(a, b, alo, blo, i, j) ==
    IF i < alo \/ j < blo \/ a[i + 1] # b[j + 1] THEN 0
    ELSE 1 + RunEndingAt(a, b, alo, blo, i - 1, j - 1)

\* find_longest_match(alo, ahi, blo, bhi): the rows are walked upwards and
\* a run replaces the best one only when strictly longer, so of the longest
\* runs the one starting earliest in a wins, then the one earliest in b
find_longest_match(a, b, alo, ahi, blo, bhi) ==
    LET ends == (alo..(ahi - 1)) \X (blo..(bhi - 1))
        size(e) == RunEndingAt(a, b, alo, blo, e[1], e[2])
        matching == {e \in ends : size(e) > 0}
    IN  IF matching = {} THEN [i |-> alo, j |-> blo, k |-> 0]
        ELSE LET best == CHOOSE e \in matching :
                     \A f \in matching :
                         \/ size(f) < size(e)
                         \/ /\ size(f) = size(e)
                            /\ \/ e[1] < f[1]
                               \/ e[1] = f[1] /\ e[2] <= f[2]
             IN  [i |-> best[1] - size(best) + 1,
                  j |-> best[2] - size(best) + 1,
                  k |-> size(best)]

RECURSIVE MatchingBlocksIn(_, _, _, _, _, _)
\* get_matching_blocks: the queue loop followed by matching_blocks.sort();
\* the blocks left of a match come before it and those right of it after
MatchingBlocksIn(a, b, alo, ahi, blo, bhi) ==
    LET x == find_longest_match(a, b, alo, ahi, blo, bhi) IN
    IF x.k = 0 THEN <<>>
    ELSE (IF alo < x.i /\ blo < x.j
          THEN MatchingBlocksIn(a, b, alo, x.i, blo, x.j) ELSE <<>>)
         \o <<x>>
         \o (IF x.i + x.k < ahi /\ x.j + x.k < bhi
             THEN MatchingBlocksIn(a, b, x.i + x.k, ahi, x.j + x.k, bhi) ELSE <<>>)

RECURSIVE CollapseAdjacent(_, _, _)
\* get_matching_blocks: the loop that merges adjacent blocks; cur is
\* (i1, j1, k1) and acc is non_adjacent
CollapseAdjacent(blocks, cur, acc) ==
    IF blocks = <<>> THEN (IF cur.k > 0 THEN Append(acc, cur) ELSE acc)
    ELSE LET nxt == Head(blocks) IN
         IF cur.i + cur.k = nxt.i /\ cur.j + cur.k = nxt.j
         THEN CollapseAdjacent(Tail(blocks), [cur EXCEPT !.k = cur.k + nxt.k], acc)
         ELSE CollapseAdjacent(Tail(blocks), nxt,
                               IF cur.k > 0 THEN Append(acc, cur) ELSE acc)

get_matching_blocks(a, b) ==
    Append(CollapseAdjacent(MatchingBlocksIn(a, b, 0, Len(a), 0, Len(b)),
                            [i |-> 0, j |-> 0, k |-> 0], <<>>),
           [i |-> Len(a), j |-> Len(b), k |-> 0])

Opcode(tag, i1, i2, j1, j2) == [tag |-> tag, i1 |-> i1, i2 |-> i2, j1 |-> j1, j2 |-> j2]

\* a plausible slip: a gap on both sides is tagged 'delete', never 'replace'
GapTag_NeverReplace(i, ai, j, bj) ==
    IF i < ai THEN "delete"
    ELSE IF j < bj THEN "insert"
    ELSE ""

\* get_opcodes: the tag of the gap between (i, j) and the next block
GapTag(i, ai, j, bj) ==
    IF i < ai /\ j < bj THEN "replace"
    ELSE IF i < ai THEN "delete"
    ELSE IF j < bj THEN "insert"
    ELSE ""

RECURSIVE OpcodesFrom(_, _, _)
\* get_opcodes: the loop over the matching blocks
OpcodesFrom(blocks, i, j) ==
    IF blocks = <<>> THEN <<>>
    ELSE LET m == Head(blocks)
             tag == GapTag(i, m.i, j, m.j)
         IN  (IF tag # "" THEN <<Opcode(tag, i, m.i, j, m.j)>> ELSE <<>>)
             \o (IF m.k > 0
                 THEN <<Opcode("equal", m.i, m.i + m.k, m.j, m.j + m.k)>> ELSE <<>>)
             \o OpcodesFrom(Tail(blocks), m.i + m.k, m.j + m.k)

get_opcodes(a, b) == OpcodesFrom(get_matching_blocks(a, b), 0, 0)

Max(x, y) == IF x >= y THEN x ELSE y

Min(x, y) == IF x <= y THEN x ELSE y

\* get_grouped_opcodes: codes[0] cut to its last n lines when it is 'equal'
TrimLeading(codes, n) ==
    LET c == codes[1] IN
    IF c.tag = "equal"
    THEN [codes EXCEPT ![1] = Opcode("equal", Max(c.i1, c.i2 - n), c.i2,
                                     Max(c.j1, c.j2 - n), c.j2)]
    ELSE codes

\* get_grouped_opcodes: codes[-1] cut to its first n lines when it is 'equal'
TrimTrailing(codes, n) ==
    LET c == codes[Len(codes)] IN
    IF c.tag = "equal"
    THEN [codes EXCEPT ![Len(codes)] = Opcode("equal", c.i1, Min(c.i2, c.i1 + n),
                                              c.j1, Min(c.j2, c.j1 + n))]
    ELSE codes

RECURSIVE GroupLoop(_, _, _, _)
\* get_grouped_opcodes: the loop; acc holds the groups yielded so far
GroupLoop(codes, n, group, acc) ==
    IF codes = <<>>
    THEN IF group # <<>> /\ ~(Len(group) = 1 /\ group[1].tag = "equal")
         THEN Append(acc, group) ELSE acc
    ELSE LET c == Head(codes) IN
         IF c.tag = "equal" /\ c.i2 - c.i1 > n + n
         THEN GroupLoop(Tail(codes), n,
                        <<Opcode("equal", Max(c.i1, c.i2 - n), c.i2,
                                 Max(c.j1, c.j2 - n), c.j2)>>,
                        Append(acc, Append(group,
                            Opcode("equal", c.i1, Min(c.i2, c.i1 + n),
                                   c.j1, Min(c.j2, c.j1 + n)))))
         ELSE GroupLoop(Tail(codes), n, Append(group, c), acc)

get_grouped_opcodes(a, b, n) ==
    LET opcodes == get_opcodes(a, b)
        codes == IF opcodes = <<>> THEN <<Opcode("equal", 0, 1, 0, 1)>> ELSE opcodes
    IN  GroupLoop(TrimTrailing(TrimLeading(codes, n), n), n, <<>>, <<>>)

DigitChars == <<"0", "1", "2", "3", "4", "5", "6", "7", "8", "9">>

RECURSIVE Decimal(_)
\* the decimal digits of a natural number
Decimal(n) ==
    IF n < 10 THEN <<DigitChars[n + 1]>>
    ELSE Append(Decimal(n \div 10), DigitChars[(n % 10) + 1])

\* '{}'.format(n), str(n) and f"{n}" of an int
Str(n) == IF n < 0 THEN <<"-">> \o Decimal(-n) ELSE Decimal(n)

\* difflib._format_range_unified(start, stop)
format_range_unified(start, stop) ==
    LET length == stop - start IN
    IF length = 1 THEN Str(start + 1)
    ELSE Str(IF length = 0 THEN start ELSE start + 1) \o <<",">> \o Str(length)

\* [prefix + line for line in lines[lo:hi]]
Prefixed(prefix, lines, lo, hi) ==
    [k \in 1..(hi - lo) |-> <<prefix>> \o lines[lo + k]]

RECURSIVE GroupLines(_, _, _)
\* unified_diff: the lines of the opcodes of one group
GroupLines(a, b, group) ==
    IF group = <<>> THEN <<>>
    ELSE LET c == Head(group) IN
         (IF c.tag = "equal" THEN Prefixed(" ", a, c.i1, c.i2)
          ELSE (IF c.tag \in {"replace", "delete"}
                THEN Prefixed("-", a, c.i1, c.i2) ELSE <<>>)
               \o (IF c.tag \in {"replace", "insert"}
                   THEN Prefixed("+", b, c.j1, c.j2) ELSE <<>>))
         \o GroupLines(a, b, Tail(group))

\* unified_diff: the '@@' line of one group
HunkHeader(group) ==
    LET first == group[1]
        last == group[Len(group)]
    IN  <<"@", "@", " ", "-">> \o format_range_unified(first.i1, last.i2)
        \o <<" ", "+">> \o format_range_unified(first.j1, last.j2)
        \o <<" ", "@", "@">>

RECURSIVE HunksOf(_, _, _)
HunksOf(a, b, groups) ==
    IF groups = <<>> THEN <<>>
    ELSE <<HunkHeader(Head(groups))>> \o GroupLines(a, b, Head(groups))
         \o HunksOf(a, b, Tail(groups))

\* a plausible slip: the two header lines are there even with no group
unified_diff_HeaderAlways(a, b, fromfile, tofile, n) ==
    <<(<<"-", "-", "-", " ">> \o fromfile), (<<"+", "+", "+", " ">> \o tofile)>>
    \o HunksOf(a, b, get_grouped_opcodes(a, b, n))

\* list(difflib.unified_diff(a, b, fromfile=fromfile, tofile=tofile,
\* lineterm="", n=n)): the two header lines come before the first group only
unified_diff(a, b, fromfile, tofile, n) ==
    LET groups == get_grouped_opcodes(a, b, n) IN
    IF groups = <<>> THEN <<>>
    ELSE <<(<<"-", "-", "-", " ">> \o fromfile), (<<"+", "+", "+", " ">> \o tofile)>>
         \o HunksOf(a, b, groups)

(***************************************************************************)
(* analyze_diff                                                            *)
(***************************************************************************)
\* a plausible slip: the context lines of the diff are counted as added too
IsAddedLine_WithContext(l) ==
    (StartsWith(l, <<"+">>) \/ StartsWith(l, <<" ">>)) /\ ~StartsWith(l, <<"+", "+", "+">>)

\* line.startswith("+") and not line.startswith("+++")
IsAddedLine(l) == StartsWith(l, <<"+">>) /\ ~StartsWith(l, <<"+", "+", "+">>)

\* a plausible slip: the context lines of the diff are counted as removed too
IsRemovedLine_WithContext(l) ==
    (StartsWith(l, <<"-">>) \/ StartsWith(l, <<" ">>)) /\ ~StartsWith(l, <<"-", "-", "-">>)

\* line.startswith("-") and not line.startswith("---")
IsRemovedLine(l) == StartsWith(l, <<"-">>) /\ ~StartsWith(l, <<"-", "-", "-">>)

\* the truth value of an Optional[str]: None and "" are false
Truthy(v) == v # None /\ v # <<>>

\* a plausible slip: a line that gives a call target is left out of the
\* instructions (the two extractions in an if ... elif)
ExtractedInstructions_NoCalls(counted) ==
    SelectSeq([k \in DOMAIN counted |->
                  IF Truthy(extract_function_call(From(counted[k], 2)))
                  THEN None
                  ELSE extract_instruction(From(counted[k], 2))], Truthy)

\* the values appended to instructions_added or instructions_removed:
\* extract_instruction(line[1:]) of the counted lines, in order, where it is
\* truthy
ExtractedInstructions(counted) ==
    SelectSeq([k \in DOMAIN counted |-> extract_instruction(From(counted[k], 2))], Truthy)

\* the values appended to function_calls_added or function_calls_removed
ExtractedCalls(counted) ==
    SelectSeq([k \in DOMAIN counted |-> extract_function_call(From(counted[k], 2))], Truthy)

\* a plausible slip: list(items), the duplicates are kept
ListOfSet_KeepAll(items) == {items}

\* list(set(items)): the distinct elements, in an order that the hashes of
\* the run decide
ListOfSet(items) ==
    LET elements == Range(items) IN
    {s \in [1..Cardinality(elements) -> elements] : Range(s) = elements}

\* the dicts analyze_diff can return for diff_lines, one for each order of
\* the four deduplicated lists
analyze_diff(diff_lines) ==
    LET added == SelectSeq(diff_lines, IsAddedLine)
        removed == SelectSeq(diff_lines, IsRemovedLine)
        instructions_added == ExtractedInstructions(added)
        instructions_removed == ExtractedInstructions(removed)
        function_calls_added == ExtractedCalls(added)
        function_calls_removed == ExtractedCalls(removed)
    IN  {[lines_added |-> Len(added),
          lines_removed |-> Len(removed),
          lines_changed |-> 0,
          instructions_added |-> instructions_added,
          instructions_removed |-> instructions_removed,
          function_calls_added |-> function_calls_added,
          function_calls_removed |-> function_calls_removed,
          unique_instructions_added |-> uia,
          unique_instructions_removed |-> uir,
          unique_calls_added |-> uca,
          unique_calls_removed |-> ucr] :
         uia \in ListOfSet(instructions_added),
         uir \in ListOfSet(instructions_removed),
         uca \in ListOfSet(function_calls_added),
         ucr \in ListOfSet(function_calls_removed)}

(***************************************************************************)
(* generate_side_by_side                                                   *)
(***************************************************************************)
\* a plausible slip: the cells are not cut
Truncated_Whole(s, max_width) == s

\* s[:max_width]
Truncated(s, max_width) == SubSeq(s, 1, Min(Len(s), max_width))

\* a plausible slip: the rows of a 'replace' opcode stop at the shorter side
ReplaceRows_ShorterSide(lines1, lines2, c, max_width) ==
    [k \in 1..Min(c.i2 - c.i1, c.j2 - c.j1) |->
        <<Truncated(lines1[c.i1 + k], max_width),
          Truncated(lines2[c.j1 + k], max_width)>>]

\* the rows of a 'replace' opcode
ReplaceRows(lines1, lines2, c, max_width) ==
    [k \in 1..Max(c.i2 - c.i1, c.j2 - c.j1) |->
        <<IF c.i1 + k - 1 < c.i2 THEN Truncated(lines1[c.i1 + k], max_width) ELSE <<>>,
          IF c.j1 + k - 1 < c.j2 THEN Truncated(lines2[c.j1 + k], max_width) ELSE <<>>>>]

\* a plausible slip: the lines of an 'equal' range are shown as rows too
RowsOf_EqualShown(lines1, lines2, c, max_width) ==
    ReplaceRows(lines1, lines2, c, max_width)

\* the rows appended for one opcode
RowsOf(lines1, lines2, c, max_width) ==
    IF c.tag = "equal" THEN <<>>
    ELSE IF c.tag = "replace" THEN ReplaceRows(lines1, lines2, c, max_width)
    ELSE IF c.tag = "delete"
    THEN [k \in 1..(c.i2 - c.i1) |-> <<Truncated(lines1[c.i1 + k], max_width), <<>>>>]
    ELSE [k \in 1..(c.j2 - c.j1) |-> <<<<>>, Truncated(lines2[c.j1 + k], max_width)>>]

RECURSIVE SideBySideLoop(_, _, _, _)
SideBySideLoop(lines1, lines2, opcodes, max_width) ==
    IF opcodes = <<>> THEN <<>>
    ELSE RowsOf(lines1, lines2, Head(opcodes), max_width)
         \o SideBySideLoop(lines1, lines2, Tail(opcodes), max_width)

generate_side_by_side(lines1, lines2, max_width) ==
    SideBySideLoop(lines1, lines2, get_opcodes(lines1, lines2), max_width)

(***************************************************************************)
(* generate_diff_summary                                                   *)
(***************************************************************************)
\* the string literals of generate_assembly_diff and generate_diff_summary
DefaultLabel1 ==
    <<"C", "o", "m", "p", "i", "l", "e", "r", " ", "1">>

DefaultLabel2 ==
    <<"C", "o", "m", "p", "i", "l", "e", "r", " ", "2">>

SecondVersionIs ==
    <<"S", "e", "c", "o", "n", "d", " ", "v", "e", "r", "s", "i", "o", "n",
      " ", "i", "s", " ">>

LinesLonger ==
    <<" ", "l", "i", "n", "e", "s", " ", "l", "o", "n", "g", "e", "r">>

LinesShorter ==
    <<" ", "l", "i", "n", "e", "s", " ", "s", "h", "o", "r", "t", "e", "r">>

SameNumberOfLines ==
    <<"B", "o", "t", "h", " ", "v", "e", "r", "s", "i", "o", "n", "s", " ",
      "h", "a", "v", "e", " ", "t", "h", "e", " ", "s", "a", "m", "e", " ",
      "n", "u", "m", "b", "e", "r", " ", "o", "f", " ", "l", "i", "n", "e",
      "s">>

NewInstructions ==
    <<"N", "e", "w", " ", "i", "n", "s", "t", "r", "u", "c", "t", "i", "o",
      "n", "s">>

RemovedInstructions ==
    <<"R", "e", "m", "o", "v", "e", "d", " ", "i", "n", "s", "t", "r", "u",
      "c", "t", "i", "o", "n", "s">>

NewFunctionCalls ==
    <<"N", "e", "w", " ", "f", "u", "n", "c", "t", "i", "o", "n", " ", "c",
      "a", "l", "l", "s">>

RemovedFunctionCalls ==
    <<"R", "e", "m", "o", "v", "e", "d", " ", "f", "u", "n", "c", "t", "i",
      "o", "n", " ", "c", "a", "l", "l", "s">>

MoreOpen ==
    <<" ", "(", "+">>

MoreClose ==
    <<" ", "m", "o", "r", "e", ")">>

\* a plausible slip: the size comparison taken the wrong way round
SizePart_Reversed(lines1, lines2) ==
    LET size_diff == Len(lines1) - Len(lines2) IN
    IF size_diff > 0 THEN SecondVersionIs \o Str(size_diff) \o LinesLonger
    ELSE IF size_diff < 0 THEN SecondVersionIs \o Str(-size_diff) \o LinesShorter
    ELSE SameNumberOfLines

\* the first element of summary_parts
SizePart(lines1, lines2) ==
    LET size_diff == Len(lines2) - Len(lines1) IN
    IF size_diff > 0 THEN SecondVersionIs \o Str(size_diff) \o LinesLonger
    ELSE IF size_diff < 0 THEN SecondVersionIs \o Str(-size_diff) \o LinesShorter
    ELSE SameNumberOfLines

\* a plausible slip: a section never says how many items it left out
Section_NoSuffix(title, items, cap) ==
    IF items = <<>> THEN <<>>
    ELSE <<title \o <<":", " ">>
           \o Join(<<",", " ">>, SubSeq(items, 1, Min(Len(items), cap)))>>

\* the elements one of the four 'if stats[...]' blocks appends to
\* summary_parts: none for an empty list, else one
Section(title, items, cap) ==
    IF items = <<>> THEN <<>>
    ELSE <<title \o <<":", " ">>
           \o Join(<<",", " ">>, SubSeq(items, 1, Min(Len(items), cap)))
           \o (IF Len(items) > cap
               THEN MoreOpen \o Str(Len(items) - cap) \o MoreClose ELSE <<>>)>>

generate_diff_summary(stats, lines1, lines2) ==
    Join(<<" ", "|", " ">>,
         <<SizePart(lines1, lines2)>>
         \o Section(NewInstructions, stats.unique_instructions_added, 5)
         \o Section(RemovedInstructions, stats.unique_instructions_removed, 5)
         \o Section(NewFunctionCalls, stats.unique_calls_added, 3)
         \o Section(RemovedFunctionCalls, stats.unique_calls_removed, 3))

(***************************************************************************)
(* generate_assembly_diff                                                  *)
(***************************************************************************)
\* the results generate_assembly_diff can return, each with the locals
\* lines1, lines2, diff_lines and the opcodes generate_side_by_side walks
generate_assembly_diff(a1, a2, label1, label2, n) ==
    LET lines1 == normalize_assembly(a1)
        lines2 == normalize_assembly(a2)
        diff_lines == unified_diff(lines1, lines2, label1, label2, n)
    IN  {[lines1 |-> lines1,
          lines2 |-> lines2,
          diff_lines |-> diff_lines,
          opcodes |-> get_opcodes(lines1, lines2),
          unified_diff |-> Join(<<"\n">>, diff_lines),
          side_by_side |-> generate_side_by_side(lines1, lines2, 50),
          statistics |-> stats,
          summary |-> generate_diff_summary(stats, lines1, lines2)] :
         stats \in analyze_diff(diff_lines)}

(***************************************************************************)
(* Specification SpecDiff: generate_assembly_diff on two listings, then    *)
(* on the same two listings the other way round.                           *)
(***************************************************************************)
\* most lines of the two enumerated listings of one comparison, together
MaxDiffLines == 4

\* the raw lines of the enumerated listings: an instruction, a call with
\* an inline comment and a doubled space, a line of two plus signs
DiffPool ==
    {<<"a">>,
     <<"c", "a", "l", "l", " ", " ", "f", " ", "#", " ", "c">>,
     <<"+", "+">>}

\* every pair of listings over DiffPool with at most n lines together
ListingPairs(n) ==
    UNION {{<<Join(<<"\n">>, l1), Join(<<"\n">>, l2)>> :
               l1 \in [1..k -> DiffPool], l2 \in BoundedSeq(DiffPool, n - k)} :
           k \in 0..n}

\* asm1 and asm2 of test_generate_assembly_diff
TestAsm1 ==
    <<"\n", "f", "u", "n", "c", "t", "i", "o", "n", "1", ":", "\n", " ",
      " ", " ", " ", "p", "u", "s", "h", " ", "r", "b", "p", "\n", " ",
      " ", " ", " ", "m", "o", "v", " ", "r", "b", "p", ",", " ", "r", "s",
      "p", "\n", " ", " ", " ", " ", "m", "o", "v", " ", "e", "a", "x",
      ",", " ", "0", "\n", " ", " ", " ", " ", "p", "o", "p", " ", "r",
      "b", "p", "\n", " ", " ", " ", " ", "r", "e", "t", "\n">>

TestAsm2 ==
    <<"\n", "f", "u", "n", "c", "t", "i", "o", "n", "1", ":", "\n", " ",
      " ", " ", " ", "p", "u", "s", "h", " ", "r", "b", "p", "\n", " ",
      " ", " ", " ", "m", "o", "v", " ", "r", "b", "p", ",", " ", "r", "s",
      "p", "\n", " ", " ", " ", " ", "x", "o", "r", " ", "e", "a", "x",
      ",", " ", "e", "a", "x", " ", " ", "#", " ", "D", "i", "f", "f", "e",
      "r", "e", "n", "t", " ", "i", "n", "s", "t", "r", "u", "c", "t", "i",
      "o", "n", "\n", " ", " ", " ", " ", "l", "e", "a", "v", "e", " ",
      " ", " ", " ", " ", " ", " ", " ", " ", "#", " ", "D", "i", "f", "f",
      "e", "r", "e", "n", "t", " ", "e", "p", "i", "l", "o", "g", "u", "e",
      "\n", " ", " ", " ", " ", "r", "e", "t", "\n">>

\* a comment, a blank line, a comment after a tab: listings of no line
CommentsOnly == <<"#", " ", "c", "\n", " ", "\n", "\t", "#", "c">>

\* a line of 51 characters, and one of 52
LongLine == Run("x", 51)

LongerLine == Run("y", 52)

\* a call whose line has 55 characters and whose target has 50
LongCallLine == <<"c", "a", "l", "l", " ">> \o Run("g", 50)

\* a line that ends like a label and begins like a call
LabelCallLine == <<"c", "a", "l", "l", " ", "f", ":">>

\* the same two lines, written with other spacing and with comments
SpacedListing ==
    <<"a", "\n", "c", "a", "l", "l", " ", " ", "f", " ", "#", " ", "c">>

CommentedListing ==
    <<" ", "a", "\n", "\n", "#", "c", "\n", "c", "a", "l", "l", "\t", "f", "\n">>

\* pairs of listings beside the enumerated ones
CorpusPairs ==
    {<<TestAsm1, TestAsm2>>,
     <<SpacedListing, CommentedListing>>,
     <<<<"a">>, <<"a", "\n">> \o LabelCallLine>>,
     <<LabelCallLine \o <<"\n", "c", "a", "l", "l", " ", "f">>, <<"a">>>>,
     <<<<"a">>, LongCallLine>>,
     <<LongCallLine \o <<"\n", "a">>, <<"a">>>>,
     <<CommentsOnly, <<>>>>,
     <<<<" ", "\n">>, CommentsOnly>>,
     <<LongLine, <<>>>>,
     <<<<>>, LongerLine>>,
     <<LongLine \o <<"\n", "a">>, LongerLine>>,
     <<<<"a", "\n">> \o LongLine, <<"a", "\n">> \o LongerLine \o <<"\n">> \o LongLine>>,
     <<<<"a", "\n", "c", "a", "l", "l", " ", "f", "\n", "+", "+", "\n">> \o LongLine,
       LongerLine \o <<"\n", "c", "a", "l", "l", " ", "f", "\n">> \o LongLine
           \o <<"\n">> \o LongerLine>>}

\* the values of context: n = 0 and n = 1 cut the equal lines around a
\* change, 3 is the default and the value compare_compilers passes
Contexts == {0, 1, 3}

InitDiff ==
    /\ pc = "listings"
    /\ \E pair \in ListingPairs(MaxDiffLines) \cup CorpusPairs :
           asm1 = pair[1] /\ asm2 = pair[2]
    /\ context \in Contexts
    /\ diff = NoDiff
    /\ swapped = NoDiff
    /\ asm_text = <<>>
    /\ normalized = <<>>
    /\ renormalized = <<>>
    /\ line = <<>>
    /\ instruction = None
    /\ call = None
    /\ IdleExtract
    /\ IdleService

\* generate_assembly_diff(asm1, asm2, context=context)
GenerateAssemblyDiff ==
    /\ pc = "listings"
    /\ diff' \in generate_assembly_diff(asm1, asm2, DefaultLabel1, DefaultLabel2, context)
    /\ pc' = "diffed"
    /\ UNCHANGED <<asm1, asm2, context, swapped, asm_text, normalized, renormalized,
                   line, instruction, call, extractVars, serviceVars>>

\* generate_assembly_diff(asm2, asm1, context=context)
GenerateSwappedDiff ==
    /\ pc = "diffed"
    /\ swapped' \in generate_assembly_diff(asm2, asm1, DefaultLabel1, DefaultLabel2, context)
    /\ pc' = "swapped"
    /\ UNCHANGED <<asm1, asm2, context, diff, asm_text, normalized, renormalized,
                   line, instruction, call, extractVars, serviceVars>>

NextDiff == GenerateAssemblyDiff \/ GenerateSwappedDiff

SpecDiff == InitDiff /\ [][NextDiff]_vars

\* the lines of the second listing the opcodes put in an 'insert' or a
\* 'replace' range, and those of the first listing in a 'delete' or a
\* 'replace' range (places counted from 0)
InsertedPlaces(opcodes, lines2) ==
    {j \in 0..(Len(lines2) - 1) : \E k \in DOMAIN opcodes :
        /\ opcodes[k].tag \in {"insert", "replace"}
        /\ j \in opcodes[k].j1..(opcodes[k].j2 - 1)}

DeletedPlaces(opcodes, lines1) ==
    {i \in 0..(Len(lines1) - 1) : \E k \in DOMAIN opcodes :
        /\ opcodes[k].tag \in {"delete", "replace"}
        /\ i \in opcodes[k].i1..(opcodes[k].i2 - 1)}

\* C13: lines_added is the number of lines of normalize(B) in insert and
\* replace ranges of the diff, whatever their text, and lines_removed the
\* number of lines of normalize(A) in delete and replace ranges.
C13_CountsEveryChangedLine ==
    pc = "diffed" =>
        /\ diff.statistics.lines_added = Cardinality(InsertedPlaces(diff.opcodes, diff.lines2))
        /\ diff.statistics.lines_removed = Cardinality(DeletedPlaces(diff.opcodes, diff.lines1))

\* the number of occurrences of item in the list items
Count(item, items) == Cardinality({k \in DOMAIN items : items[k] = item})

\* no line of the two listings begins like a file header of the diff
HasNoHeaderLikeLine(d) ==
    \A l \in Range(d.lines1) \cup Range(d.lines2) :
        ~StartsWith(l, <<"+", "+">>) /\ ~StartsWith(l, <<"-", "-">>)

\* C14 as stated, for listings with no line that begins like a file
\* header: the instructions_added of (A, B) are the instructions_removed of
\* (B, A), and lines_added of (A, B) is lines_removed of (B, A).
C14_SwapSymmetric ==
    (pc = "swapped" /\ HasNoHeaderLikeLine(diff)) =>
        /\ diff.statistics.instructions_added = swapped.statistics.instructions_removed
        /\ diff.statistics.lines_added = swapped.statistics.lines_removed

\* C14: under swapping the inputs the net change of every mnemonic is
\* mirrored: its occurrences in instructions_added less those in
\* instructions_removed of (A, B) are its occurrences in
\* instructions_removed less those in instructions_added of (B, A); the
\* lists themselves may differ.
C14_NetChangeMirrored ==
    pc = "swapped" =>
        LET forward == diff.statistics
            backward == swapped.statistics
        IN  \A m \in Range(forward.instructions_added) \cup Range(forward.instructions_removed)
                     \cup Range(backward.instructions_added)
                     \cup Range(backward.instructions_removed) :
                Count(m, forward.instructions_added) - Count(m, forward.instructions_removed)
                    = Count(m, backward.instructions_removed)
                          - Count(m, backward.instructions_added)

\* two listings whose instruction lists are not mirrored by the swap
C14_Witness ==
    /\ pc = "swapped"
    /\ HasNoHeaderLikeLine(diff)
    /\ diff.statistics.instructions_added # swapped.statistics.instructions_removed
    /\ diff.statistics.instructions_added # <<>>
    /\ diff.statistics.instructions_removed # <<>>

\* unique is a list of the distinct elements of raw, each once
IsDeduplicationOf(unique, raw) ==
    /\ \A i, j \in DOMAIN unique : unique[i] = unique[j] => i = j
    /\ Range(unique) = Range(raw)

\* C15: each of the four unique_ lists of the statistics has no duplicate
\* and the same elements as its raw list, which the statistics keep too.
C15_UniqueListsDeduplicated ==
    pc = "diffed" =>
        LET stats == diff.statistics IN
        /\ IsDeduplicationOf(stats.unique_instructions_added, stats.instructions_added)
        /\ IsDeduplicationOf(stats.unique_instructions_removed, stats.instructions_removed)
        /\ IsDeduplicationOf(stats.unique_calls_added, stats.function_calls_added)
        /\ IsDeduplicationOf(stats.unique_calls_removed, stats.function_calls_removed)

\* an instruction added twice beside another one, which is a call
C15_Witness ==
    /\ pc = "diffed"
    /\ Len(diff.statistics.instructions_added) > Len(diff.statistics.unique_instructions_added)
    /\ Len(diff.statistics.unique_instructions_added) > 1
    /\ diff.statistics.unique_calls_added # <<>>

(***************************************************************************)
(* Specification SpecSummary: generate_diff_summary on given statistics    *)
(* and listings, as test_diff_summary_generation calls it.                 *)
(***************************************************************************)
\* most lines of each enumerated listing given to generate_diff_summary
MaxSummaryLines == 2
\* most mnemonics of a unique_instructions_ list, most targets of a
\* unique_calls_ list
MaxUniqueInstructions == 6

MaxUniqueCalls == 4

\* the mnemonics and the call targets of the lists: those of the test, then
\* more of the same kind
InstructionNames ==
    <<<<"x", "o", "r">>,
      <<"l", "e", "a">>,
      <<"t", "e", "s", "t">>,
      <<"m", "o", "v">>,
      <<"c", "m", "p">>,
      <<"a", "d", "d">>,
      <<"r", "e", "t">>,
      <<"p", "u", "s", "h">>>>

CallNames ==
    <<<<"m", "a", "l", "l", "o", "c">>,
      <<"f", "r", "e", "e">>,
      <<"n", "e", "w">>,
      <<"d", "e", "l", "e", "t", "e">>,
      <<"f", "(", "i", "n", "t", ",", " ", "i", "n", "t", ")">>,
      <<"[", "i", "n", "d", "i", "r", "e", "c", "t", "_", "c", "a", "l", "l", "]">>>>

Reversed(items) == [k \in DOMAIN items |-> items[Len(items) + 1 - k]]

\* a listing of n lines
ListingOf(n) == [k \in 1..n |-> <<"l", "i", "n", "e">>]

\* the numbers of lines of lines1 and lines2: every pair of small ones, the
\* pair of the test, and listings twelve lines apart
ListingSizes ==
    ((0..MaxSummaryLines) \X (0..MaxSummaryLines)) \cup {<<3, 2>>, <<12, 0>>, <<0, 12>>}

\* the stats dicts: the four keys generate_diff_summary reads
SummaryStats ==
    {[unique_instructions_added |-> SubSeq(InstructionNames, 1, ia),
      unique_instructions_removed |-> SubSeq(Reversed(InstructionNames), 1, ir),
      unique_calls_added |-> SubSeq(CallNames, 1, ca),
      unique_calls_removed |-> SubSeq(Reversed(CallNames), 1, cr)] :
     ia \in 0..MaxUniqueInstructions, ir \in 0..MaxUniqueInstructions,
     ca \in 0..MaxUniqueCalls, cr \in 0..MaxUniqueCalls}

InitSummary ==
    /\ pc = "stats"
    /\ \E sizes \in ListingSizes, stats \in SummaryStats :
           diff = [NoDiff EXCEPT !.lines1 = ListingOf(sizes[1]),
                                 !.lines2 = ListingOf(sizes[2]),
                                 !.statistics = stats]
    /\ asm1 = <<>>
    /\ asm2 = <<>>
    /\ context = 0
    /\ swapped = NoDiff
    /\ asm_text = <<>>
    /\ normalized = <<>>
    /\ renormalized = <<>>
    /\ line = <<>>
    /\ instruction = None
    /\ call = None
    /\ IdleExtract
    /\ IdleService

\* summary = generate_diff_summary(stats, lines1, lines2)
GenerateDiffSummary ==
    /\ pc = "stats"
    /\ diff' = [diff EXCEPT
                   !.summary = generate_diff_summary(diff.statistics, diff.lines1, diff.lines2)]
    /\ pc' = "summarized"
    /\ UNCHANGED <<asm1, asm2, context, swapped, asm_text, normalized, renormalized,
                   line, instruction, call, extractVars, serviceVars>>

NextSummary == GenerateDiffSummary

SpecSummary == InitSummary /\ [][NextSummary]_vars

\* the summary up to its first ' | '
FirstPart(summary) ==
    IF Contains(summary, <<" ", "|", " ">>)
    THEN SubSeq(summary, 1,
                (CHOOSE i \in DOMAIN summary :
                    /\ SubSeq(summary, i, i + 2) = <<" ", "|", " ">>
                    /\ \A j \in 1..(i - 1) : SubSeq(summary, j, j + 2) # <<" ", "|", " ">>) - 1)
    ELSE summary

DigitValue(c) == CHOOSE v \in 0..9 : DigitChars[v + 1] = c

RECURSIVE NumeralValue(_)
NumeralValue(d) ==
    IF d = <<>> THEN 0
    ELSE 10 * NumeralValue(SubSeq(d, 1, Len(d) - 1)) + DigitValue(d[Len(d)])

\* d is the decimal numeral of the natural number n
IsNumeralOf(d, n) ==
    /\ d # <<>>
    /\ \A i \in DOMAIN d : d[i] \in Digits
    /\ Len(d) > 1 => d[1] # "0"
    /\ NumeralValue(d) = n

\* part reads: before, the numeral of n, after
ReadsWithNumber(part, before, n, after) ==
    /\ StartsWith(part, before)
    /\ EndsWith(part, after)
    /\ Len(part) > Len(before) + Len(after)
    /\ IsNumeralOf(SubSeq(part, Len(before) + 1, Len(part) - Len(after)), n)

\* C16: the first part of the summary states the size comparison: 'Second
\* version is N lines longer' when lines2 has N > 0 lines more, 'Second
\* version is N lines shorter' when it has N > 0 lines fewer, 'Both versions
\* have the same number of lines' when the lengths are equal.
C16_SizePartStatesComparison ==
    pc = "summarized" =>
        LET part == FirstPart(diff.summary)
            n1 == Len(diff.lines1)
            n2 == Len(diff.lines2)
        IN  /\ n2 > n1 => ReadsWithNumber(part, SecondVersionIs, n2 - n1, LinesLonger)
            /\ n2 < n1 => ReadsWithNumber(part, SecondVersionIs, n1 - n2, LinesShorter)
            /\ n2 = n1 => part = SameNumberOfLines

\* a second listing twelve lines shorter, with sections after the size part
C16_Witness ==
    /\ pc = "summarized"
    /\ Len(diff.lines1) - Len(diff.lines2) = 12
    /\ FirstPart(diff.summary) # diff.summary

\* the decimal numeral of a natural number below 100
Numeral(n) == CHOOSE d \in BoundedSeq(Digits, 2) : IsNumeralOf(d, n)

\* the text of a section: the title, at most cap items, and how many more
\* there are when there are more
SectionText(title, items, cap) ==
    title \o <<":", " ">>
    \o Join(<<",", " ">>, [k \in 1..Min(Len(items), cap) |-> items[k]])
    \o (IF Len(items) > cap
        THEN <<" ", "(", "+">> \o Numeral(Len(items) - cap) \o <<" ", "m", "o", "r", "e", ")">>
        ELSE <<>>)

\* the sections of the summary of stats, in their order: one for each list
\* that is not empty
SectionsOf(stats) ==
    LET all == <<SectionText(NewInstructions, stats.unique_instructions_added, 5),
                 SectionText(RemovedInstructions, stats.unique_instructions_removed, 5),
                 SectionText(NewFunctionCalls, stats.unique_calls_added, 3),
                 SectionText(RemovedFunctionCalls, stats.unique_calls_removed, 3)>>
        lists == <<stats.unique_instructions_added, stats.unique_instructions_removed,
                   stats.unique_calls_added, stats.unique_calls_removed>>
        present == {k \in 1..4 : lists[k] # <<>>}
        place(r) == CHOOSE k \in present : Cardinality({j \in present : j < k}) = r - 1
    IN  [r \in 1..Cardinality(present) |-> all[place(r)]]

\* C17: the summary is the ' | '-join of the size part and then the
\* sections New instructions, Removed instructions, New function calls,
\* Removed function calls, a section being there exactly when its list is
\* not empty, with at most 5 mnemonics or 3 call targets and '(+K more)'
\* exactly when K > 0 items are left out.
C17_SummarySections ==
    pc = "summarized" =>
        diff.summary =
            Join(<<" ", "|", " ">>, <<FirstPart(diff.summary)>> \o SectionsOf(diff.statistics))

\* more mnemonics added than the cap, some removed, more calls added than
\* the cap, none removed
C17_Witness ==
    /\ pc = "summarized"
    /\ Len(diff.statistics.unique_instructions_added) > 5
    /\ Len(diff.statistics.unique_instructions_removed) \in 1..5
    /\ Len(diff.statistics.unique_calls_added) > 3
    /\ diff.statistics.unique_calls_removed = <<>>

\* normalize_assembly keeps no line of text: each line is blank, a comment,
\* or blank before its comment
HasNoKeptLine(text) == KeptLines(SplitLines(text)) = {}

\* C18: generate_assembly_diff returns a result for every pair of listings,
\* and when neither listing has a line that normalization keeps, the
\* unified diff is the empty string, side_by_side is empty, the counts are
\* 0, every instruction and call list is empty and the summary is 'Both
\* versions have the same number of lines'.
C18_TotalAndTrivialOnEmpty ==
    /\ pc = "listings" =>
           generate_assembly_diff(asm1, asm2, DefaultLabel1, DefaultLabel2, context) # {}
    /\ (pc = "diffed" /\ HasNoKeptLine(asm1) /\ HasNoKeptLine(asm2)) =>
           LET stats == diff.statistics IN
           /\ diff.unified_diff = <<>>
           /\ diff.side_by_side = <<>>
           /\ stats.lines_added = 0
           /\ stats.lines_removed = 0
           /\ stats.instructions_added = <<>>
           /\ stats.instructions_removed = <<>>
           /\ stats.function_calls_added = <<>>
           /\ stats.function_calls_removed = <<>>
           /\ stats.unique_instructions_added = <<>>
           /\ stats.unique_instructions_removed = <<>>
           /\ stats.unique_calls_added = <<>>
           /\ stats.unique_calls_removed = <<>>
           /\ diff.summary = SameNumberOfLines

\* two listings of blank lines and comments, neither the empty text
C18_Witness ==
    /\ pc = "diffed"
    /\ asm1 # <<>>
    /\ asm2 # <<>>
    /\ asm1 # asm2
    /\ HasNoKeptLine(asm1)
    /\ HasNoKeptLine(asm2)

\* C19: the opcodes generate_side_by_side walks are contiguous and
\* complete: the i-ranges of successive opcodes go from 0 to len(A) without
\* gap or overlap, the j-ranges from 0 to len(B), no opcode is empty on both
\* sides, an 'equal' range is as long on both sides with the same lines
\* pair by pair, a 'delete' has an empty j-range and an 'insert' an empty
\* i-range.
C19_OpcodesPartitionBothListings ==
    pc = "diffed" =>
        LET ops == diff.opcodes
            A == diff.lines1
            B == diff.lines2
        IN  /\ ops = <<>> => A = <<>> /\ B = <<>>
            /\ ops # <<>> =>
                   /\ ops[1].i1 = 0 /\ ops[1].j1 = 0
                   /\ ops[Len(ops)].i2 = Len(A) /\ ops[Len(ops)].j2 = Len(B)
            /\ \A k \in 1..(Len(ops) - 1) :
                   ops[k].i2 = ops[k + 1].i1 /\ ops[k].j2 = ops[k + 1].j1
            /\ \A k \in DOMAIN ops :
                   LET c == ops[k] IN
                   /\ c.tag \in {"equal", "replace", "delete", "insert"}
                   /\ c.i1 <= c.i2 /\ c.j1 <= c.j2
                   /\ c.i1 < c.i2 \/ c.j1 < c.j2
                   /\ c.tag = "equal" =>
                          /\ c.i2 - c.i1 = c.j2 - c.j1
                          /\ \A d \in 1..(c.i2 - c.i1) : A[c.i1 + d] = B[c.j1 + d]
                   /\ c.tag = "delete" => c.j1 = c.j2
                   /\ c.tag = "insert" => c.i1 = c.i2

\* opcodes of all four tags in one stream
C19_Witness ==
    /\ pc = "diffed"
    /\ {diff.opcodes[k].tag : k \in DOMAIN diff.opcodes} =
           {"equal", "replace", "delete", "insert"}

\* the number of rows of one opcode: none for 'equal', else the length of
\* its longer side
RowCount(c) == IF c.tag = "equal" THEN 0 ELSE Max(c.i2 - c.i1, c.j2 - c.j1)

RECURSIVE RowsBefore(_, _)
\* the number of rows of the opcodes before the k-th
RowsBefore(ops, k) == IF k <= 1 THEN 0 ELSE RowsBefore(ops, k - 1) + RowCount(ops[k - 1])

\* the first n characters of l
FirstChars(l, n) == [k \in 1..(IF Len(l) < n THEN Len(l) ELSE n) |-> l[k]]

\* the rows of d.side_by_side follow the opcodes in order; the r-th row of
\* an opcode pairs the r-th line of its i-range with the r-th line of its
\* j-range, each cut to its first width characters, the empty string
\* standing for a side that has no r-th line
RowsFollowOpcodes(d, width) ==
    LET ops == d.opcodes IN
    /\ Len(d.side_by_side) = RowsBefore(ops, Len(ops) + 1)
    /\ \A k \in DOMAIN ops : \A r \in 1..RowCount(ops[k]) :
           d.side_by_side[RowsBefore(ops, k) + r] =
               <<IF ops[k].i1 + r <= ops[k].i2
                 THEN FirstChars(d.lines1[ops[k].i1 + r], width) ELSE <<>>,
                 IF ops[k].j1 + r <= ops[k].j2
                 THEN FirstChars(d.lines2[ops[k].j1 + r], width) ELSE <<>>>>

\* the length of the longest line of the two listings of d
LongestLine(d) ==
    LET lengths == {Len(l) : l \in Range(d.lines1) \cup Range(d.lines2)} \cup {0}
    IN  CHOOSE n \in lengths : \A m \in lengths : m <= n

\* C20 as stated: the cells of the rows are the lines, whole.
C20_RowsPairLines ==
    pc = "diffed" => RowsFollowOpcodes(diff, LongestLine(diff))

\* C20: no row for an 'equal' range; for 'replace' as many rows as the
\* longer side has lines, pairing the lines place by place with the empty
\* string on the exhausted side; for 'delete' a (line, '') row per left line
\* and for 'insert' a ('', line) row per right line; rows in opcode order;
\* each cell being the first 50 characters of its line.
C20_RowsPairLinesCutTo50 ==
    pc = "diffed" => RowsFollowOpcodes(diff, 50)

\* a 'replace' range with more lines on the left, and a line of more than
\* 50 characters in it
C20_Witness ==
    /\ pc = "diffed"
    /\ \E k \in DOMAIN diff.opcodes :
           LET c == diff.opcodes[k] IN
           /\ c.tag = "replace"
           /\ c.i2 - c.i1 > c.j2 - c.j1
           /\ \E i \in (c.i1 + 1)..c.i2 : Len(diff.lines1[i]) > 50

\* l is a line of more than 50 characters that calls a target written
\* plainly: a call instruction, then an operand that is neither indirect nor
\* wrapped in brackets
IsLongPlainCall(l) ==
    /\ Len(l) > 50
    /\ IsCallLine(l)
    /\ l[Len(l)] # ":"
    /\ ~IsIndirectOperand(OperandText(l))
    /\ ~IsBracketWrapped(OperandText(l))

\* the changed line l, marked '+' or '-' in the unified diff, is there
\* whole, and so are its mnemonic and its call target in the two lists
ReportedWhole(d, marker, l, instructions, calls) ==
    /\ (<<marker>> \o l) \in Range(d.diff_lines)
    /\ IsLongPlainCall(l) =>
           /\ Lower(FirstToken(l)) \in Range(instructions)
           /\ OperandText(l) \in Range(calls)

\* C21: every cell of side_by_side has at most 50 characters and is a
\* prefix of the line of its row, while the unified diff holds every changed
\* line whole and the statistics the mnemonic and the whole call target of a
\* changed line of more than 50 characters.
C21_CellsCutStatisticsWhole ==
    pc = "diffed" =>
        LET ops == diff.opcodes
            stats == diff.statistics
        IN  /\ Len(diff.side_by_side) = RowsBefore(ops, Len(ops) + 1)
            /\ \A k \in DOMAIN ops : \A r \in 1..RowCount(ops[k]) :
                   LET row == diff.side_by_side[RowsBefore(ops, k) + r] IN
                   /\ Len(row[1]) <= 50 /\ Len(row[2]) <= 50
                   /\ IF ops[k].i1 + r <= ops[k].i2
                      THEN StartsWith(diff.lines1[ops[k].i1 + r], row[1]) ELSE row[1] = <<>>
                   /\ IF ops[k].j1 + r <= ops[k].j2
                      THEN StartsWith(diff.lines2[ops[k].j1 + r], row[2]) ELSE row[2] = <<>>
            /\ \A j \in InsertedPlaces(ops, diff.lines2) :
                   ReportedWhole(diff, "+", diff.lines2[j + 1],
                                 stats.instructions_added, stats.function_calls_added)
            /\ \A i \in DeletedPlaces(ops, diff.lines1) :
                   ReportedWhole(diff, "-", diff.lines1[i + 1],
                                 stats.instructions_removed, stats.function_calls_removed)

\* a call of 55 characters added: its cell is cut, its target is not
C21_Witness ==
    /\ pc = "diffed"
    /\ \E j \in InsertedPlaces(diff.opcodes, diff.lines2) :
           /\ IsLongPlainCall(diff.lines2[j + 1])
           /\ \E r \in DOMAIN diff.side_by_side :
                  /\ Len(diff.side_by_side[r][2]) = 50
                  /\ diff.side_by_side[r][2] = FirstChars(diff.lines2[j + 1], 50)

(***************************************************************************)
(* CompilerExplorerClient (src/ce_mcp/api_client.py): the session of a     *)
(* client under requests and close() calls.                                *)
(*                                                                         *)
(* The calls run as asyncio tasks on one event loop: a call runs alone     *)
(* from one await that suspends to the next, so each action below is the   *)
(* code between two such awaits.  A ClientSession is known by the order    *)
(* in which it was made (1, 2, ...); its connector bears the same number.  *)
(***************************************************************************)
\* most calls (requests and close()) made on one client
MaxCalls == 4

Calls == 1..MaxCalls

\* a call that has not been made
NotCalled ==
    [op |-> "none", at |-> "idle", session |-> 0, result |-> "none",
     overlapped |-> FALSE]

\* the calls that have been made and have not returned
InFlight == {t \in Calls : tasks[t].at \notin {"idle", "returned"}}

\* a plausible slip: a session is made for every request
get_session_AlwaysNew(current, made) ==
    <<Len(made) + 1, Append(made, "open")>>

\* _get_session: the value of self.session (and self.connector) on return and
\* the sessions in being; a TCPConnector and a ClientSession are made only
\* when self.session is None.  No await suspends inside.
get_session(current, made) ==
    IF current = 0
    THEN <<Len(made) + 1, Append(made, "open")>>
    ELSE <<current, made>>

\* the calls are numbered in the order in which they are made
IsNextCall(t) ==
    /\ tasks[t].at = "idle"
    /\ \A u \in Calls : u < t => tasks[u].at # "idle"

\* a call made while other calls are in flight overlaps with each of them
Begin(t, op, at, local) ==
    [u \in Calls |->
        IF u = t
        THEN [op |-> op, at |-> at, session |-> local, result |-> "none",
              overlapped |-> InFlight # {}]
        ELSE IF u \in InFlight
             THEN [tasks[u] EXCEPT !.overlapped = TRUE]
             ELSE tasks[u]]

InitClient ==
    /\ pc = "client"
    /\ session = 0
    /\ connector = 0
    /\ closed = FALSE
    /\ sessions = <<>>
    /\ tasks = [t \in Calls |-> NotCalled]
    /\ asm_text = <<>>
    /\ normalized = <<>>
    /\ renormalized = <<>>
    /\ line = <<>>
    /\ instruction = None
    /\ call = None
    /\ IdleExtract
    /\ IdleDiff
    /\ IdleLabels
    /\ IdleTruncate
    /\ IdleCompare

clientFrame ==
    <<pc, asm_text, normalized, renormalized, line, instruction, call,
      extractVars, diffVars, labelVars, truncateVars, compare>>

\* a request method (compile, get_languages, ...) up to its first await that
\* suspends: session = await self._get_session(), then session.post or
\* session.get is entered
Request(t) ==
    /\ IsNextCall(t)
    /\ LET got == get_session(session, sessions)
       IN  /\ session' = got[1]
           /\ connector' = IF session = 0 THEN got[1] ELSE connector
           /\ sessions' = got[2]
           /\ tasks' = Begin(t, "request", "posting", got[1])
    /\ UNCHANGED <<closed, clientFrame>>

\* the request comes back: aiohttp raises RuntimeError on a closed session;
\* on an open one the response is returned or a ClientError is raised again
Respond(t) ==
    /\ tasks[t].at = "posting"
    /\ \E outcome \in IF sessions[tasks[t].session] = "open"
                      THEN {"json", "ClientError"}
                      ELSE {"RuntimeError"} :
           tasks' = [tasks EXCEPT ![t].at = "returned", ![t].result = outcome]
    /\ UNCHANGED <<session, connector, closed, sessions, clientFrame>>

\* close(): the test `if self.session and not self._closed`; when it fails
\* close() returns, otherwise self.session.close() is entered
Close(t) ==
    /\ IsNextCall(t)
    /\ IF session # 0 /\ ~closed
       THEN tasks' = Begin(t, "close", "closing_session", session)
       ELSE tasks' = [Begin(t, "close", "returned", 0) EXCEPT ![t].overlapped = FALSE]
    /\ UNCHANGED <<session, connector, closed, sessions, clientFrame>>

\* await self.session.close() closes that session
SessionClosed(t) ==
    /\ tasks[t].at = "closing_session"
    /\ sessions' = [sessions EXCEPT ![tasks[t].session] = "closed"]
    /\ tasks' = [tasks EXCEPT ![t].at = "session_closed"]
    /\ UNCHANGED <<session, connector, closed, clientFrame>>

\* self.session = None; if self.connector: self.connector.close() is
\* entered, which closes the session that connector belongs to
ForgetSession(t) ==
    /\ tasks[t].at = "session_closed"
    /\ session' = 0
    /\ sessions' = IF connector # 0
                   THEN [sessions EXCEPT ![connector] = "closed"]
                   ELSE sessions
    /\ tasks' = [tasks EXCEPT ![t].at =
                     IF connector # 0 THEN "closing_connector" ELSE "sleeping"]
    /\ UNCHANGED <<connector, closed, clientFrame>>

\* after await self.connector.close(): self.connector = None; the running
\* task itself is among asyncio.all_tasks(), so asyncio.sleep(0.2) is awaited
ForgetConnector(t) ==
    /\ tasks[t].at = "closing_connector"
    /\ connector' = 0
    /\ tasks' = [tasks EXCEPT ![t].at = "sleeping"]
    /\ UNCHANGED <<session, closed, sessions, clientFrame>>

\* after the sleep: self._closed = True, and close() returns
MarkClosed(t) ==
    /\ tasks[t].at = "sleeping"
    /\ closed' = TRUE
    /\ tasks' = [tasks EXCEPT ![t].at = "returned"]
    /\ UNCHANGED <<session, connector, sessions, clientFrame>>

NextClient ==
    \E t \in Calls :
        \/ Request(t)
        \/ Respond(t)
        \/ Close(t)
        \/ SessionClosed(t)
        \/ ForgetSession(t)
        \/ ForgetConnector(t)
        \/ MarkClosed(t)

SpecClient == InitClient /\ [][NextClient]_vars

(***************************************************************************)
(* Claims about the session of a client.                                   *)
(***************************************************************************)
\* call t returns in this step
Returns(t) == tasks[t].at # "returned" /\ tasks'[t].at = "returned"

\* no call was made while another one was in flight
OneAfterAnother == \A t \in Calls : ~tasks[t].overlapped

\* C22: in a run whose requests and close() calls come one after another,
\* whenever a close() returns, client.session is None.
C22_NoSessionAfterClose ==
    [][\A t \in Calls :
           (Returns(t) /\ tasks'[t].op = "close" /\ OneAfterAnother')
               => session' = 0]_vars

\* the sessions that are open
OpenSessions == {k \in DOMAIN sessions : sessions[k] = "open"}

\* the calls made before the first close() call
BeforeClose ==
    {t \in Calls : \A u \in Calls : u <= t => tasks[u].op # "close"}

\* the requests made before the first close() all hold the session made
\* first, and until a close() is called no second session is made
OneSession ==
    /\ \A t \in BeforeClose : tasks[t].op = "request" => tasks[t].session = 1
    /\ (\A t \in Calls : tasks[t].op # "close") =>
           /\ Len(sessions) <= 1
           /\ session = Len(sessions)
           /\ OpenSessions = DOMAIN sessions

\* C30: a session is made only by a step that finds client.session None; the
\* requests made before the first close(), one after another or interleaved,
\* all use the same session; while no close() has been called the client has
\* at most one session, which is open.
C30_OneSessionWhileOpen ==
    [][/\ Len(sessions') > Len(sessions) => session = 0
       /\ OneSession']_vars

\* three requests before any close(), two of them in flight together, and
\* one session made
C30_Witness ==
    /\ pc = "client"
    /\ \A t \in 1..3 : tasks[t].op = "request"
    /\ tasks[1].overlapped /\ tasks[2].overlapped /\ ~tasks[3].overlapped
    /\ tasks[3].at = "posting"
    /\ Len(sessions) = 1

(***************************************************************************)
(* truncate_output (src/ce_mcp/utils.py)                                   *)
(***************************************************************************)
\* "..." appended to a line that was cut
Ellipsis ==
    <<".", ".", ".">>

\* "... (output truncated)", the line appended to a truncated result
TruncationMarker ==
    <<".", ".", ".", " ", "(", "o", "u", "t", "p", "u", "t", " ",
      "t", "r", "u", "n", "c", "a", "t", "e", "d", ")">>

\* lines[:max_lines] when len(lines) > max_lines, else lines
KeptOutputLines(lines, limit) ==
    IF Len(lines) > limit THEN SubSeq(lines, 1, limit) ELSE lines

\* line[:max_line_length] + "..." for a line longer than max_line_length
CutLine(l, limit) ==
    IF Len(l) > limit THEN SubSeq(l, 1, limit) \o Ellipsis ELSE l

\* the pair (result, was_truncated)
truncate_output(t, limit, line_limit) ==
    LET lines == SplitLines(t)
        kept == KeptOutputLines(lines, limit)
        truncated_lines == [i \in DOMAIN kept |-> CutLine(kept[i], line_limit)]
        was_truncated ==
            \/ Len(lines) > limit
            \/ \E i \in DOMAIN kept : Len(kept[i]) > line_limit
        result == Join(<<"\n">>, truncated_lines)
    IN  <<IF was_truncated THEN result \o <<"\n">> \o TruncationMarker ELSE result,
          was_truncated>>

\* longest text given to truncate_output character by character
MaxOutputLen == 5
\* largest max_lines and max_line_length given with such a text
MaxLimit == 2

OutputAlphabet == {"a", "\n", "\r"}

\* the text of test_no_truncation_needed with its limits 10 and 100
TestOutput ==
    <<"L", "i", "n", "e", " ", "1", "\n", "L", "i", "n", "e", " ", "2", "\n",
      "L", "i", "n", "e", " ", "3">>

TruncateCalls ==
    {<<t, limit, line_limit>> :
        t \in BoundedSeq(OutputAlphabet, MaxOutputLen),
        limit \in 1..MaxLimit, line_limit \in 1..MaxLimit}
    \cup {<<TestOutput, 10, 100>>, <<TestOutput, 2, 5>>}

InitTruncate ==
    /\ pc = "output"
    /\ \E c \in TruncateCalls :
           output = c[1] /\ max_lines = c[2] /\ max_line_length = c[3]
    /\ truncated = <<<<>>, FALSE>>
    /\ asm_text = <<>>
    /\ normalized = <<>>
    /\ renormalized = <<>>
    /\ line = <<>>
    /\ instruction = None
    /\ call = None
    /\ IdleExtract
    /\ IdleDiff
    /\ IdleLabels
    /\ NewClient
    /\ IdleCompare

\* result, was_truncated = truncate_output(text, max_lines, max_line_length)
TruncateOutput ==
    /\ pc = "output"
    /\ truncated' = truncate_output(output, max_lines, max_line_length)
    /\ pc' = "truncated"
    /\ UNCHANGED <<output, max_lines, max_line_length, asm_text, normalized,
                   renormalized, line, instruction, call, extractVars, diffVars,
                   labelVars, clientVars, compare>>

NextTruncate == TruncateOutput

SpecTruncate == InitTruncate /\ [][NextTruncate]_vars

\* the text has at most max_lines lines and none longer than max_line_length
FitsLimits ==
    /\ Len(SplitLines(output)) <= max_lines
    /\ \A i \in DOMAIN SplitLines(output) : Len(SplitLines(output)[i]) <= max_line_length

\* a line of at most max_line_length characters, or max_line_length
\* characters and "..." behind them
IsWithinLineLimit(l) ==
    \/ Len(l) <= max_line_length
    \/ /\ Len(l) = max_line_length + 3
       /\ EndsWith(l, Ellipsis)

\* C23: was_truncated is False exactly when the text has at most max_lines
\* lines and no line longer than max_line_length, and then the result is the
\* input text; otherwise the result is at most max_lines lines, each within
\* the line limit or cut to it with "...", and the marker line after them.
C23_TruncatesToLimits ==
    pc = "truncated" =>
        LET result == truncated[1]
            was_truncated == truncated[2]
            shown == SplitLines(result)
        IN  /\ was_truncated = ~FitsLimits
            /\ ~was_truncated => result = output
            /\ was_truncated =>
                  /\ shown # <<>>
                  /\ shown[Len(shown)] = TruncationMarker
                  /\ Len(shown) - 1 <= max_lines
                  /\ \A i \in 1..(Len(shown) - 1) : IsWithinLineLimit(shown[i])

(***************************************************************************)
(* compare_compilers (src/ce_mcp/tools.py)                                 *)
(*                                                                         *)
(* The tool makes its own client and awaits one request at a time, so the  *)
(* whole of a request, and the whole of close(), is one step here.         *)
(***************************************************************************)
\* most fragments of an `asm` payload that is a list
MaxFragments == 2

\* "g132", "clang1600", "-O2" and "-O3", the compilers and options of the
\* examples in the docstring of compare_compilers_tool
G132 ==
    <<"g", "1", "3", "2">>

Clang1600 ==
    <<"c", "l", "a", "n", "g", "1", "6", "0", "0">>

OptionO2 ==
    <<"-", "O", "2">>

OptionO3 ==
    <<"-", "O", "3">>

\* the values of arguments["compilers"]
CompilerLists ==
    {<<>>,
     <<[id |-> G132, options |-> OptionO2]>>,
     <<[id |-> G132, options |-> OptionO2], [id |-> G132, options |-> OptionO3]>>,
     <<[id |-> G132, options |-> OptionO2], [id |-> Clang1600, options |-> OptionO2]>>}

ComparisonTypes == {"execution", "assembly", "diagnostics"}

\* the texts of the fragments of a payload
FragmentTexts ==
    {<<"a">>, <<"c", "a", "l", "l", " ", "f">>}

\* an item of a payload list: a dict with a "text" key, a dict without one,
\* or something that is not a dict
Fragments ==
    {[is_dict |-> TRUE, has_text |-> TRUE, text |-> s] : s \in FragmentTexts}
    \cup {[is_dict |-> TRUE, has_text |-> FALSE, text |-> <<>>],
          [is_dict |-> FALSE, has_text |-> FALSE, text |-> <<>>]}

\* the values of result["asm"]: a str or a list
AsmPayloads ==
    {[is_list |-> FALSE, text |-> s, items |-> <<>>] :
        s \in {<<>>, <<"a", "\n", "c", "a", "l", "l", " ", "f", "\n">>}}
    \cup {[is_list |-> TRUE, text |-> <<>>, items |-> items] :
             items \in BoundedSeq(Fragments, MaxFragments)}

RECURSIVE FragmentTextsOf(_)
\* item.get("text", "") for item in asm if isinstance(item, dict)
FragmentTextsOf(items) ==
    IF items = <<>> THEN <<>>
    ELSE IF ~Head(items).is_dict THEN FragmentTextsOf(Tail(items))
    ELSE <<IF Head(items).has_text THEN Head(items).text ELSE <<>>>>
         \o FragmentTextsOf(Tail(items))

\* a plausible slip: only the first fragment is kept
ResolveAsm_FirstOnly(asm) ==
    IF asm.is_list
    THEN IF FragmentTextsOf(asm.items) = <<>> THEN <<>>
         ELSE Head(FragmentTextsOf(asm.items))
    ELSE asm.text

\* asm = result.get("asm", ""); a list is joined with "\n"
ResolveAsm(asm) ==
    IF asm.is_list
    THEN Join(<<"\n">>, FragmentTextsOf(asm.items))
    ELSE asm.text

\* f"{results[i]['compiler']} {results[i]['options']}"
LabelOf(result) == result.compiler \o <<" ">> \o result.options

\* a plausible slip: client.close() stands after the loop, not in a finally
\* clause, so an exception leaves the function at once
Raise_PastClose(c, e) ==
    [c EXCEPT !.exception = e, !.at = "raised"]

\* an exception raised inside the try block: the finally clause is entered
\* with the exception pending
Raise(c, e) ==
    [c EXCEPT !.exception = e, !.at = "finally"]

\* a request method of the client is awaited: _get_session, then the request
IssueRequest ==
    LET got == get_session(session, sessions)
    IN  /\ session' = got[1]
        /\ connector' = IF session = 0 THEN got[1] ELSE connector
        /\ sessions' = got[2]
        /\ UNCHANGED closed

\* await client.close(), nothing else running
CloseClient ==
    IF session # 0 /\ ~closed
    THEN /\ sessions' = [sessions EXCEPT ![session] = "closed"]
         /\ session' = 0
         /\ connector' = 0
         /\ closed' = TRUE
    ELSE UNCHANGED <<session, connector, closed, sessions>>

\* compare with one more call on the client recorded
Called(c, what) == [c EXCEPT !.calls = Append(c.calls, what)]

InitCompare ==
    /\ pc = "compare"
    /\ \E libraries \in BOOLEAN, compilers \in CompilerLists,
          comparison_type \in ComparisonTypes :
           compare = [libraries |-> libraries, compilers |-> compilers,
                      comparison_type |-> comparison_type, at |-> "try",
                      payloads |-> <<>>, results |-> <<>>, calls |-> <<>>,
                      exception |-> "none"]
    /\ session = 0
    /\ connector = 0
    /\ closed = FALSE
    /\ sessions = <<>>
    /\ tasks = <<>>
    /\ asm_text = <<>>
    /\ normalized = <<>>
    /\ renormalized = <<>>
    /\ line = <<>>
    /\ instruction = None
    /\ call = None
    /\ IdleExtract
    /\ IdleDiff
    /\ IdleLabels
    /\ IdleTruncate

compareFrame ==
    <<pc, asm_text, normalized, renormalized, line, instruction, call,
      extractVars, swapped, labelVars, truncateVars, tasks>>

\* `if libraries:` fails: the loop is reached without a request
NoLibraries ==
    /\ compare.at = "try"
    /\ ~compare.libraries
    /\ compare' = [compare EXCEPT !.at = "loop"]
    /\ UNCHANGED <<clientVars, asm1, asm2, context, diff, compareFrame>>

\* compilers[0] of an empty list raises IndexError before any request
NoFirstCompiler ==
    /\ compare.at = "try"
    /\ compare.libraries
    /\ compare.compilers = <<>>
    /\ compare' = Raise(compare, "IndexError")
    /\ UNCHANGED <<clientVars, asm1, asm2, context, diff, compareFrame>>

\* resolve_libraries_for_compilation: await client.get_libraries(language);
\* a failure is raised again as LibraryError
GetLibraries ==
    /\ compare.at = "try"
    /\ compare.libraries
    /\ compare.compilers # <<>>
    /\ IssueRequest
    /\ \E failed \in BOOLEAN :
           compare' = IF failed
                      THEN Raise(Called(compare, "request"), "LibraryError")
                      ELSE [Called(compare, "request") EXCEPT !.at = "libraries"]
    /\ UNCHANGED <<tasks, asm1, asm2, context, diff, compareFrame>>

\* await client.get_compilers(language), then the checks of the libraries:
\* resolved, or LibraryNotFoundError (caught for suggestions), or another
\* LibraryError
GetCompilers ==
    /\ compare.at = "libraries"
    /\ IssueRequest
    /\ \E outcome \in {"resolved", "LibraryNotFoundError", "LibraryError",
                       "CompilerLibraryError", "LibraryVersionError"} :
           compare' =
               IF outcome = "resolved"
               THEN [Called(compare, "request") EXCEPT !.at = "loop"]
               ELSE IF outcome = "LibraryNotFoundError"
               THEN [Called(compare, "request") EXCEPT !.at = "suggesting"]
               ELSE Raise(Called(compare, "request"), outcome)
    /\ UNCHANGED <<tasks, asm1, asm2, context, diff, compareFrame>>

\* suggestions = await search_libraries(lib_name, language, client), which
\* returns [] when its request fails; raise LibraryError(enhanced_error)
SearchLibraries ==
    /\ compare.at = "suggesting"
    /\ IssueRequest
    /\ compare' = Raise(Called(compare, "request"), "LibraryError")
    /\ UNCHANGED <<tasks, asm1, asm2, context, diff, compareFrame>>

\* one turn of `for comp_config in compilers`: the compile request raises or
\* returns; the assembly branch resolves result["asm"] and appends a result
Compile ==
    /\ compare.at = "loop"
    /\ Len(compare.results) < Len(compare.compilers)
    /\ IssueRequest
    /\ LET comp_config == compare.compilers[Len(compare.results) + 1]
           made == Called(compare, "request")
       IN  \/ compare' = Raise(made, "ClientError")
           \/ /\ compare.comparison_type = "assembly"
              /\ \E asm \in AsmPayloads :
                     compare' = [made EXCEPT
                         !.payloads = Append(@, asm),
                         !.results = Append(@, [compiler |-> comp_config.id,
                                                options |-> comp_config.options,
                                                has_assembly |-> TRUE,
                                                assembly |-> ResolveAsm(asm)])]
           \/ /\ compare.comparison_type # "assembly"
              /\ compare' = [made EXCEPT
                     !.results = Append(@, [compiler |-> comp_config.id,
                                            options |-> comp_config.options,
                                            has_assembly |-> FALSE,
                                            assembly |-> <<>>])]
    /\ UNCHANGED <<tasks, asm1, asm2, context, diff, compareFrame>>

\* the loop is exhausted: the try block is left without an exception
LoopDone ==
    /\ compare.at = "loop"
    /\ Len(compare.results) = Len(compare.compilers)
    /\ compare' = [compare EXCEPT !.at = "finally"]
    /\ UNCHANGED <<clientVars, asm1, asm2, context, diff, compareFrame>>

\* finally: await client.close(); a pending exception is then raised again
Finally ==
    /\ compare.at = "finally"
    /\ CloseClient
    /\ compare' = [Called(compare, "close") EXCEPT
                      !.at = IF compare.exception = "none" THEN "closed" ELSE "raised"]
    /\ UNCHANGED <<tasks, asm1, asm2, context, diff, compareFrame>>

\* after the try statement: with two results of an assembly comparison
\* generate_assembly_diff(results[0]["assembly"], results[1]["assembly"],
\* label1=..., label2=..., context=3); then the response is returned
Differences ==
    /\ compare.at = "closed"
    /\ IF Len(compare.results) >= 2 /\ compare.comparison_type = "assembly"
       THEN /\ asm1' = compare.results[1].assembly
            /\ asm2' = compare.results[2].assembly
            /\ context' = 3
            /\ diff' \in generate_assembly_diff(
                             compare.results[1].assembly, compare.results[2].assembly,
                             LabelOf(compare.results[1]), LabelOf(compare.results[2]), 3)
       ELSE UNCHANGED <<asm1, asm2, context, diff>>
    /\ compare' = [compare EXCEPT !.at = "returned"]
    /\ UNCHANGED <<clientVars, compareFrame>>

NextCompare ==
    \/ NoLibraries
    \/ NoFirstCompiler
    \/ GetLibraries
    \/ GetCompilers
    \/ SearchLibraries
    \/ Compile
    \/ LoopDone
    \/ Finally
    \/ Differences

SpecCompare == InitCompare /\ [][NextCompare]_vars

(***************************************************************************)
(* Claims about compare_compilers.                                         *)
(***************************************************************************)
\* a payload that is a list of {"text": ...} dicts
IsTextFragmentList(asm) ==
    /\ asm.is_list
    /\ \A i \in DOMAIN asm.items : asm.items[i].is_dict /\ asm.items[i].has_text

RECURSIVE ContainsInOrder(_, _)
\* s holds the texts one after another, in their order, without overlap
ContainsInOrder(s, texts) ==
    IF texts = <<>> THEN TRUE
    ELSE \E k \in 0..(Len(s) - Len(Head(texts))) :
             /\ SubSeq(s, k + 1, k + Len(Head(texts))) = Head(texts)
             /\ ContainsInOrder(From(s, k + Len(Head(texts)) + 1), Tail(texts))

\* two results of an assembly comparison have been diffed and returned
DiffReturned ==
    /\ compare.at = "returned"
    /\ compare.comparison_type = "assembly"
    /\ Len(compare.results) >= 2

\* C24: the assembly stored for a payload that is a list of {text} fragments
\* holds the text of every fragment, in the order of the list; the assembly
\* stored for a payload that is a str is that str; and the two listings the
\* diff engine is given are the first two assemblies stored.
C24_FragmentsJoinedInOrder ==
    pc = "compare" =>
        /\ \A i \in DOMAIN compare.payloads :
               LET asm == compare.payloads[i]
                   assembly == compare.results[i].assembly
               IN  /\ IsTextFragmentList(asm) =>
                         ContainsInOrder(assembly,
                             [k \in DOMAIN asm.items |-> asm.items[k].text])
                   /\ ~asm.is_list => assembly = asm.text
        /\ DiffReturned =>
               /\ asm1 = compare.results[1].assembly
               /\ asm2 = compare.results[2].assembly
               /\ diff.lines1 = normalize_assembly(asm1)
               /\ diff.lines2 = normalize_assembly(asm2)

\* a list of two fragments with the same text against a str with two lines
C24_Witness ==
    /\ pc = "compare"
    /\ DiffReturned
    /\ IsTextFragmentList(compare.payloads[1])
    /\ Len(compare.payloads[1].items) = 2
    /\ compare.payloads[1].items[1] = compare.payloads[1].items[2]
    /\ ~compare.payloads[2].is_list
    /\ Len(diff.lines1) = 2
    /\ Len(diff.lines2) = 2

\* how many times close() was awaited on the client
CloseCalls == Cardinality({i \in DOMAIN compare.calls : compare.calls[i] = "close"})

\* C29: the client is closed once on every path, a raised exception reaches
\* the caller after close(), and no request follows close().
C29_ClosedOnceOnEveryPath ==
    pc = "compare" =>
        /\ CloseCalls <= 1
        /\ \A i, j \in DOMAIN compare.calls :
               (i < j /\ compare.calls[i] = "close") => compare.calls[j] # "request"
        /\ compare.at \in {"closed", "returned", "raised"} =>
               /\ CloseCalls = 1
               /\ session = 0
               /\ \A k \in DOMAIN sessions : sessions[k] = "closed"
               /\ (compare.exception # "none") = (compare.at = "raised")

\* the second compile request raised after library resolution and one
\* compilation went through; the exception has left the function
C29_Witness ==
    /\ pc = "compare"
    /\ compare.at = "raised"
    /\ compare.exception = "ClientError"
    /\ compare.libraries
    /\ Len(compare.results) = 1
    /\ compare.calls = <<"request", "request", "request", "request", "close">>

(***************************************************************************)
(* Claims about calls among the instructions of the statistics.            *)
(***************************************************************************)
\* the lines of the two normalized listings
ListingLinesOf(d) == Range(d.lines1) \cup Range(d.lines2)

\* the inserted (or deleted) lines, given by their places, that end with ':'
LabelLinesAt(places, lines) ==
    Cardinality({j \in places : EndsWith(lines[j + 1], <<":">>)})

\* C25 as stated: every line that gives a call target gives the call
\* mnemonic, in lower case, as its instruction, and function_calls_added
\* (function_calls_removed) has no more entries than instructions_added
\* (instructions_removed).
C25_CallsAmongInstructions ==
    pc = "diffed" =>
        /\ \A l \in ListingLinesOf(diff) :
               extract_function_call(l) # None =>
                   extract_instruction(l) = Lower(FirstToken(l))
        /\ Len(diff.statistics.function_calls_added)
               <= Len(diff.statistics.instructions_added)
        /\ Len(diff.statistics.function_calls_removed)
               <= Len(diff.statistics.instructions_removed)

\* C25 as amended: every line that gives a call target and does not end with
\* ':' gives the call mnemonic, in lower case, as its instruction, and
\* function_calls_added (function_calls_removed) has at most as many entries
\* more than instructions_added (instructions_removed) as there are inserted
\* (deleted) lines that end with ':'.
C25_CallsAmongInstructionsButLabels ==
    pc = "diffed" =>
        /\ \A l \in ListingLinesOf(diff) :
               (extract_function_call(l) # None /\ ~EndsWith(l, <<":">>)) =>
                   /\ extract_instruction(l) = Lower(FirstToken(l))
                   /\ extract_instruction(l) \in CallMnemonics
        /\ Len(diff.statistics.function_calls_added)
               <= Len(diff.statistics.instructions_added)
                  + LabelLinesAt(InsertedPlaces(diff.opcodes, diff.lines2), diff.lines2)
        /\ Len(diff.statistics.function_calls_removed)
               <= Len(diff.statistics.instructions_removed)
                  + LabelLinesAt(DeletedPlaces(diff.opcodes, diff.lines1), diff.lines1)

\* a call line and a call line that ends with ':' were removed: two call
\* targets and one instruction
C25_Witness ==
    /\ pc = "diffed"
    /\ Len(diff.statistics.function_calls_removed) = 2
    /\ diff.statistics.instructions_removed = <<<<"c", "a", "l", "l">>>>
    /\ LabelLinesAt(DeletedPlaces(diff.opcodes, diff.lines1), diff.lines1) = 1

(***************************************************************************)
(* Claims about the size stated by the statistics and by the summary.      *)
(***************************************************************************)
\* C26: lines_added - lines_removed is len(lines2) - len(lines1) of the
\* normalized listings, and the size part of the summary states that number
\* with its sign.
C26_StatisticsAgreeWithSizePart ==
    pc = "diffed" =>
        LET net == diff.statistics.lines_added - diff.statistics.lines_removed
            part == FirstPart(diff.summary)
        IN  /\ net = Len(normalize_assembly(asm2)) - Len(normalize_assembly(asm1))
            /\ net > 0 => ReadsWithNumber(part, SecondVersionIs, net, LinesLonger)
            /\ net < 0 => ReadsWithNumber(part, SecondVersionIs, 0 - net, LinesShorter)
            /\ net = 0 => part = SameNumberOfLines

(***************************************************************************)
(* Claims about listings that differ in comments and spacing only.         *)
(***************************************************************************)
\* normalize_assembly gives the same list of lines for asm1 and for asm2
SameWhenNormalized == normalize_assembly(asm1) = normalize_assembly(asm2)

\* C28: when normalize_assembly gives the same lines for both listings, the
\* unified diff and side_by_side are empty, lines_added and lines_removed are
\* 0 and the summary is 'Both versions have the same number of lines'; and
\* side_by_side is empty only when the normalized listings are equal.
C28_IdenticalWhenNormalizedEqual ==
    pc = "diffed" =>
        /\ SameWhenNormalized =>
               /\ diff.unified_diff = <<>>
               /\ diff.side_by_side = <<>>
               /\ diff.statistics.lines_added = 0
               /\ diff.statistics.lines_removed = 0
               /\ diff.summary = SameNumberOfLines
        /\ diff.side_by_side = <<>> => SameWhenNormalized

\* two texts that are not equal, of the same two normalized lines
C28_Witness ==
    /\ pc = "diffed"
    /\ asm1 # asm2
    /\ SameWhenNormalized
    /\ Len(diff.lines1) = 2
    /\ diff.side_by_side = <<>>
    /\ diff.summary = SameNumberOfLines

(***************************************************************************)
(* Specification SpecLabels: generate_assembly_diff on two listings, then  *)
(* on the same two listings with other labels and another context.         *)
(***************************************************************************)
\* most lines of the two enumerated listings of one relabelled comparison
MaxLabelledLines == 3

\* "g132 -O2" and "clang1600 -O2", labels as compare_compilers builds them
LabelG132 == G132 \o <<" ">> \o OptionO2

LabelClang == Clang1600 \o <<" ">> \o OptionO2

\* the labels of the second call: the defaults, labels of compare_compilers,
\* an empty label and one that begins like an added line
LabelPairs ==
    {<<DefaultLabel1, DefaultLabel2>>,
     <<LabelG132, LabelClang>>,
     <<<<>>, <<"+", "a">>>>}

\* both calls run in one interpreter, so list(set(...)) orders equal lists of
\* items the same way in both
SameHashOrder(first, second) ==
    /\ second.instructions_added = first.instructions_added
           => second.unique_instructions_added = first.unique_instructions_added
    /\ second.instructions_removed = first.instructions_removed
           => second.unique_instructions_removed = first.unique_instructions_removed
    /\ second.function_calls_added = first.function_calls_added
           => second.unique_calls_added = first.unique_calls_added
    /\ second.function_calls_removed = first.function_calls_removed
           => second.unique_calls_removed = first.unique_calls_removed

InitLabels ==
    /\ pc = "listings"
    /\ \E pair \in ListingPairs(MaxLabelledLines) \cup CorpusPairs :
           asm1 = pair[1] /\ asm2 = pair[2]
    /\ context \in Contexts
    /\ diff = NoDiff
    /\ swapped = NoDiff
    /\ asm_text = <<>>
    /\ normalized = <<>>
    /\ renormalized = <<>>
    /\ line = <<>>
    /\ instruction = None
    /\ call = None
    /\ IdleExtract
    /\ IdleService

\* generate_assembly_diff(asm1, asm2, label1, label2, context) with labels or
\* a context other than those of the first call
GenerateLabelledDiff ==
    /\ pc = "diffed"
    /\ \E labels \in LabelPairs, n \in Contexts :
           /\ <<labels[1], labels[2], n>> # <<DefaultLabel1, DefaultLabel2, context>>
           /\ second_label1' = labels[1]
           /\ second_label2' = labels[2]
           /\ second_context' = n
           /\ labelled' \in generate_assembly_diff(asm1, asm2, labels[1], labels[2], n)
           /\ SameHashOrder(diff.statistics, labelled'.statistics)
    /\ pc' = "labelled"
    /\ UNCHANGED <<asm1, asm2, context, diff, swapped, asm_text, normalized,
                   renormalized, line, instruction, call, extractVars,
                   truncateVars, clientVars, compare>>

NextLabels == GenerateAssemblyDiff \/ GenerateLabelledDiff

SpecLabels == InitLabels /\ [][NextLabels]_vars

\* C27: a second call on the same asm1 and asm2 with other labels or another
\* context returns the same statistics, summary and side_by_side.
C27_LabelsAndContextOnlyInUnifiedDiff ==
    pc = "labelled" =>
        /\ labelled.statistics = diff.statistics
        /\ labelled.summary = diff.summary
        /\ labelled.side_by_side = diff.side_by_side

\* the two calls differ in labels and in context, their unified diffs differ
\* in more than the headers, and lines were added and removed
C27_Witness ==
    /\ pc = "labelled"
    /\ second_label1 # DefaultLabel1
    /\ second_context # context
    /\ Len(labelled.diff_lines) # Len(diff.diff_lines)
    /\ diff.statistics.lines_added > 0
    /\ diff.statistics.lines_removed > 0
    /\ diff.statistics.unique_instructions_added # <<>>

====
